---- MODULE Spec2Model ----
(***************************************************************************)
(* Known-bits analysis of llvm/lib/Support/KnownBits.cpp (the value-level  *)
(* algebra) and llvm/lib/CodeGen/GlobalISel/GISelKnownBits.cpp (the        *)
(* recursive, memoized traversal of the SSA instruction graph).            *)
(*                                                                         *)
(* An APInt of width w is a natural number below 2^w.  A KnownBits is a    *)
(* record [BitWidth, Zero, One].                                           *)
(***************************************************************************)
EXTENDS Integers, Sequences, FiniteSets, TLC

VARIABLES
  LHS, RHS, Op, KnownOut,        \* algebra: operands, operator applied, result
  Carry,                         \* algebra: the Carry of computeForAddCarry
  MRI,                           \* the machine function: register -> definition
  MaxDepth,                      \* GISelKnownBits::MaxDepth
  ComputeKnownBitsCache,         \* register -> KnownBits, or NoEntry
  stack,                         \* activation records, innermost first
  query,                         \* the top-level entry point in progress
  result,                        \* what the last top-level entry point returned
  failed,                        \* the assertion that aborted the program, or "none"
  steps                          \* steps taken by the query in progress (history)

algVars == <<LHS, RHS, Op, KnownOut, Carry>>
irVars  == <<MRI, MaxDepth, ComputeKnownBitsCache, stack, query, result, failed,
             steps>>
vars    == <<LHS, RHS, Op, KnownOut, Carry, MRI, MaxDepth, ComputeKnownBitsCache,
             stack, query, result, failed, steps>>

-----------------------------------------------------------------------------
(* Bounds                                                                  *)

\* widest operand of the algebra specification
MaxBitWidth == 3

\* width of a narrow scalar register of the machine functions analysed; a wide
\* register (the result of an extension or a merge) has twice this width
RegBits == 2

\* the analyzers are constructed with MaxDepth in 0 .. MaxDepthBound
MaxDepthBound == 2

-----------------------------------------------------------------------------
(* APInt: fixed-width unsigned integers                                    *)

Min(a, b) == IF a <= b THEN a ELSE b
Max(a, b) == IF a >= b THEN a ELSE b

getAllOnesValue(w) == 2^w - 1

APIntOf(w) == 0 .. (2^w - 1)

\* APInt::operator[]
Bit(x, i) == (x \div 2^i) % 2

RECURSIVE BitAnd(_, _)
BitAnd(x, y) ==
  IF x = 0 \/ y = 0 THEN 0
  ELSE (x % 2) * (y % 2) + 2 * BitAnd(x \div 2, y \div 2)

BitOr(x, y) == x + y - BitAnd(x, y)

BitXor(x, y) == x + y - 2 * BitAnd(x, y)

BitNot(x, w) == getAllOnesValue(w) - x

RECURSIVE countTrailingOnes(_)
countTrailingOnes(x) ==
  IF x % 2 = 0 THEN 0 ELSE 1 + countTrailingOnes(x \div 2)

RECURSIVE countLeadingOnes(_, _)
countLeadingOnes(x, w) ==
  IF w = 0 \/ Bit(x, w - 1) = 0 THEN 0
  ELSE 1 + countLeadingOnes(x % 2^(w - 1), w - 1)

getLoBits(x, n) == x % 2^n

setLowBits(x, n) == BitOr(x, getAllOnesValue(n))

setHighBits(x, n, w) == BitOr(x, getAllOnesValue(w) - getAllOnesValue(w - n))

\* APInt::setBitsFrom(lo): set bits lo .. w-1
setBitsFrom(x, lo, w) == BitOr(x, getAllOnesValue(w) - getAllOnesValue(lo))

clearLowBits(x, n) == x - (x % 2^n)

setSignBit(x, w) == BitOr(x, 2^(w - 1))

clearSignBit(x, w) == x % 2^(w - 1)

setBitVal(x, pos, b) == x - Bit(x, pos) * 2^pos + b * 2^pos

APshl(x, s, w) == (x * 2^s) % 2^w

APlshr(x, s) == x \div 2^s

APashr(x, s, w) ==
  IF Bit(x, w - 1) = 1
  THEN BitOr(x \div 2^s, getAllOnesValue(w) - getAllOnesValue(w - s))
  ELSE x \div 2^s

\* the two's complement reading of an APInt
SignedValue(x, w) == IF Bit(x, w - 1) = 1 THEN x - 2^w ELSE x

\* the APInt holding a (possibly negative) integer, wrapped to w bits
Wrap(n, w) == n % 2^w

-----------------------------------------------------------------------------
(* KnownBits: constructors and the inline helpers of KnownBits.h           *)

KB(w, z, o) == [BitWidth |-> w, Zero |-> z, One |-> o]

\* KnownBits(BitWidth): nothing known
Unknown(w) == KB(w, 0, 0)

hasConflict(K) == BitAnd(K.Zero, K.One) # 0

isUnknown(K) == K.Zero = 0 /\ K.One = 0

isConstant(K) ==
  ~hasConflict(K) /\ BitOr(K.Zero, K.One) = getAllOnesValue(K.BitWidth)

getConstant(K) == K.One

getMinValue(K) == K.One

getMaxValue(K) == BitNot(K.Zero, K.BitWidth)

isNegative(K) == Bit(K.One, K.BitWidth - 1) = 1

isNonNegative(K) == Bit(K.Zero, K.BitWidth - 1) = 1

makeNegative(K) == [K EXCEPT !.One = setSignBit(K.One, K.BitWidth)]

makeNonNegative(K) == [K EXCEPT !.Zero = setSignBit(K.Zero, K.BitWidth)]

countMinTrailingZeros(K) == countTrailingOnes(K.Zero)

countMinLeadingZeros(K) == countLeadingOnes(K.Zero, K.BitWidth)

\* every KnownBits of width w, with or without conflict
AnyKnownBits(w) == {KB(w, z, o) : z \in APIntOf(w), o \in APIntOf(w)}

\* the KnownBits of width w that satisfy the invariant Zero & One == 0
KnownBitsOf(w) == {K \in AnyKnownBits(w) : ~hasConflict(K)}

\* x matches K: x & K.Zero == 0 and ~x & K.One == 0
Matches(x, K) ==
  /\ BitAnd(x, K.Zero) = 0
  /\ BitAnd(BitNot(x, K.BitWidth), K.One) = 0

Concretes(K) == {x \in APIntOf(K.BitWidth) : Matches(x, K)}

\* K2 refines K1: every bit known in K1 is known with the same value in K2
Refines(K2, K1) ==
  /\ K2.BitWidth = K1.BitWidth
  /\ BitAnd(K1.Zero, K2.Zero) = K1.Zero
  /\ BitAnd(K1.One, K2.One) = K1.One

\* APInt::sext from width `from` to width `to`
APsext(x, from, to) ==
  IF Bit(x, from - 1) = 1 THEN x + (2^to - 2^from) ELSE x

\* APInt::insertBits: bits [pos, pos + subw) replaced by sub
APinsertBits(x, sub, subw, pos) ==
  x - ((x \div 2^pos) % 2^subw) * 2^pos + sub * 2^pos

\* APInt::extractBits(numBits, bitPosition)
APextractBits(x, numBits, pos) == (x \div 2^pos) % 2^numBits

\* APInt::getNumSignBits: the number of leading bits equal to the sign bit
getNumSignBits(x, w) ==
  IF Bit(x, w - 1) = 1 THEN countLeadingOnes(x, w)
  ELSE countLeadingOnes(BitNot(x, w), w)

\* KnownBits::sext: both masks are sign-extended
sext(K, BitWidth) ==
  KB(BitWidth, APsext(K.Zero, K.BitWidth, BitWidth), APsext(K.One, K.BitWidth, BitWidth))

\* KnownBits::anyext: both masks are zero-extended, the new bits are unknown
anyext(K, BitWidth) == KB(BitWidth, K.Zero, K.One)

\* KnownBits::trunc
trunc(K, BitWidth) == KB(BitWidth, K.Zero % 2^BitWidth, K.One % 2^BitWidth)

\* KnownBits::zext: the new bits are known zero
zext(K, BitWidth) == KB(BitWidth, setBitsFrom(K.Zero, K.BitWidth, BitWidth), K.One)

zextOrTrunc(K, BitWidth) ==
  IF BitWidth > K.BitWidth THEN zext(K, BitWidth)
  ELSE IF BitWidth < K.BitWidth THEN trunc(K, BitWidth)
  ELSE K

\* KnownBits::insertBits
insertBits(K, SubBits, BitPosition) ==
  KB(K.BitWidth,
     APinsertBits(K.Zero, SubBits.Zero, SubBits.BitWidth, BitPosition),
     APinsertBits(K.One, SubBits.One, SubBits.BitWidth, BitPosition))

\* KnownBits::extractBits
extractBits(K, NumBits, BitPosition) ==
  KB(NumBits,
     APextractBits(K.Zero, NumBits, BitPosition),
     APextractBits(K.One, NumBits, BitPosition))

-----------------------------------------------------------------------------
(* KnownBits.cpp                                                           *)

\* static computeForAddCarry: the sums, the carry masks and the known mask
PossibleSumZero(L, R, CarryZero) ==
  (getMaxValue(L) + getMaxValue(R) + (IF CarryZero THEN 0 ELSE 1)) % 2^L.BitWidth

PossibleSumOne(L, R, CarryOne) ==
  (getMinValue(L) + getMinValue(R) + (IF CarryOne THEN 1 ELSE 0)) % 2^L.BitWidth

\* mutant: the known mask leaves out the positions where the carry is known
AddCarryKnown_NoCarryUnion(L, R, CarryZero, CarryOne) ==
  BitAnd(BitOr(L.Zero, L.One), BitOr(R.Zero, R.One))

AddCarryKnown(L, R, CarryZero, CarryOne) ==
  LET w == L.BitWidth
      CarryKnownZero ==
        BitNot(BitXor(BitXor(PossibleSumZero(L, R, CarryZero), L.Zero), R.Zero), w)
      CarryKnownOne ==
        BitXor(BitXor(PossibleSumOne(L, R, CarryOne), L.One), R.One)
      LHSKnownUnion == BitOr(L.Zero, L.One)
      RHSKnownUnion == BitOr(R.Zero, R.One)
      CarryKnownUnion == BitOr(CarryKnownZero, CarryKnownOne)
  IN  BitAnd(BitAnd(LHSKnownUnion, RHSKnownUnion), CarryKnownUnion)

computeForAddCarry(L, R, CarryZero, CarryOne) ==
  LET w == L.BitWidth
      Known == AddCarryKnown(L, R, CarryZero, CarryOne)
  IN  KB(w,
         BitAnd(BitNot(PossibleSumZero(L, R, CarryZero), w), Known),
         BitAnd(PossibleSumOne(L, R, CarryOne), Known))

\* mutant: subtraction without the one's complement of RHS
computeForAddSub_NoSwap(Add, NSW, L, R0) ==
  LET R == R0
      Out == IF Add THEN computeForAddCarry(L, R, TRUE, FALSE)
                    ELSE computeForAddCarry(L, R, FALSE, TRUE)
  IN  IF ~isNegative(Out) /\ ~isNonNegative(Out) /\ NSW
      THEN IF isNonNegative(L) /\ isNonNegative(R) THEN makeNonNegative(Out)
           ELSE IF isNegative(L) /\ isNegative(R) THEN makeNegative(Out)
           ELSE Out
      ELSE Out

computeForAddSub(Add, NSW, L, R0) ==
  LET R == IF Add THEN R0 ELSE KB(R0.BitWidth, R0.One, R0.Zero)
      Out == IF Add THEN computeForAddCarry(L, R, TRUE, FALSE)
                    ELSE computeForAddCarry(L, R, FALSE, TRUE)
  IN  IF ~isNegative(Out) /\ ~isNonNegative(Out) /\ NSW
      THEN IF isNonNegative(L) /\ isNonNegative(R) THEN makeNonNegative(Out)
           ELSE IF isNegative(L) /\ isNegative(R) THEN makeNegative(Out)
           ELSE Out
      ELSE Out

\* mutant: Val is not masked to the leading positions counted by N
makeGE_Unmasked(K, Val) ==
  KB(K.BitWidth, K.Zero, BitOr(K.One, Val))

makeGE(K, Val) ==
  LET N == countLeadingOnes(BitOr(K.Zero, Val), K.BitWidth)
      MaskedVal == clearLowBits(Val, K.BitWidth - N)
  IN  KB(K.BitWidth, K.Zero, BitOr(K.One, MaskedVal))

\* mutant: the first early return hands back the wrong operand
umax_WrongOperand(L, R) ==
  IF getMinValue(L) >= getMaxValue(R) THEN R
  ELSE IF getMinValue(R) >= getMaxValue(L) THEN R
  ELSE LET L2 == makeGE(L, getMinValue(R))
           R2 == makeGE(R, getMinValue(L))
       IN  KB(L.BitWidth, BitAnd(L2.Zero, R2.Zero), BitAnd(L2.One, R2.One))

umax(L, R) ==
  IF getMinValue(L) >= getMaxValue(R) THEN L
  ELSE IF getMinValue(R) >= getMaxValue(L) THEN R
  ELSE LET L2 == makeGE(L, getMinValue(R))
           R2 == makeGE(R, getMinValue(L))
       IN  KB(L.BitWidth, BitAnd(L2.Zero, R2.Zero), BitAnd(L2.One, R2.One))

umin_Flip(Val) == KB(Val.BitWidth, Val.One, Val.Zero)

umin(L, R) == umin_Flip(umax(umin_Flip(L), umin_Flip(R)))

\* mutant: the sign bit is not flipped
smax_Flip_Identity(Val) == Val

smax_Flip(Val) ==
  LET SignBitPosition == Val.BitWidth - 1
  IN  KB(Val.BitWidth,
         setBitVal(Val.Zero, SignBitPosition, Bit(Val.One, SignBitPosition)),
         setBitVal(Val.One, SignBitPosition, Bit(Val.Zero, SignBitPosition)))

smax(L, R) == smax_Flip(umax(smax_Flip(L), smax_Flip(R)))

smin_Flip(Val) ==
  LET SignBitPosition == Val.BitWidth - 1
  IN  KB(Val.BitWidth,
         setBitVal(Val.One, SignBitPosition, Bit(Val.Zero, SignBitPosition)),
         setBitVal(Val.Zero, SignBitPosition, Bit(Val.One, SignBitPosition)))

smin(L, R) == smin_Flip(umax(smin_Flip(L), smin_Flip(R)))

shl(L, R) ==
  LET BitWidth == L.BitWidth
  IN  IF isConstant(R) /\ getConstant(R) < BitWidth
      THEN LET Shift == getConstant(R)
           IN  KB(BitWidth,
                  setLowBits(APshl(L.Zero, Shift, BitWidth), Shift),
                  APshl(L.One, Shift, BitWidth))
      ELSE LET Z1 == IF getMinValue(R) < BitWidth
                     THEN setLowBits(0, getMinValue(R)) ELSE 0
           IN  KB(BitWidth, setLowBits(Z1, countMinTrailingZeros(L)), 0)

lshr(L, R) ==
  LET BitWidth == L.BitWidth
  IN  IF isConstant(R) /\ getConstant(R) < BitWidth
      THEN LET Shift == getConstant(R)
           IN  KB(BitWidth,
                  setHighBits(APlshr(L.Zero, Shift), Shift, BitWidth),
                  APlshr(L.One, Shift))
      ELSE LET Z1 == IF getMinValue(R) < BitWidth
                     THEN setHighBits(0, getMinValue(R), BitWidth) ELSE 0
           IN  KB(BitWidth, setHighBits(Z1, countMinLeadingZeros(L), BitWidth), 0)

\* mutant: the masks are shifted logically, not arithmetically
ashr_Logical(L, R) ==
  LET BitWidth == L.BitWidth
  IN  IF isConstant(R) /\ getConstant(R) < BitWidth
      THEN LET Shift == getConstant(R)
           IN  KB(BitWidth, APlshr(L.Zero, Shift), APlshr(L.One, Shift))
      ELSE Unknown(BitWidth)

ashr(L, R) ==
  LET BitWidth == L.BitWidth
  IN  IF isConstant(R) /\ getConstant(R) < BitWidth
      THEN LET Shift == getConstant(R)
           IN  KB(BitWidth,
                  APashr(L.Zero, Shift, BitWidth),
                  APashr(L.One, Shift, BitWidth))
      ELSE Unknown(BitWidth)

abs(K) ==
  IF isNonNegative(K) THEN K
  ELSE LET Val == clearSignBit(K.One, K.BitWidth)
       IN  IF Val # 0 THEN KB(K.BitWidth, setSignBit(0, K.BitWidth), 0)
           ELSE Unknown(K.BitWidth)

\* mutant: the operand with the most known low bits decides, not the fewest
computeForMul_MostKnown(L, R) ==
  LET BitWidth == L.BitWidth
      LeadZ == Min(Max(countMinLeadingZeros(L) + countMinLeadingZeros(R), BitWidth)
                     - BitWidth, BitWidth)
      TrailBitsKnown0 == countTrailingOnes(BitOr(L.Zero, L.One))
      TrailBitsKnown1 == countTrailingOnes(BitOr(R.Zero, R.One))
      TrailZero0 == countMinTrailingZeros(L)
      TrailZero1 == countMinTrailingZeros(R)
      TrailZ == TrailZero0 + TrailZero1
      SmallestOperand ==
        Max(TrailBitsKnown0 - TrailZero0, TrailBitsKnown1 - TrailZero1)
      ResultBitsKnown == Min(SmallestOperand + TrailZ, BitWidth)
      BottomKnown ==
        (getLoBits(L.One, TrailBitsKnown0) * getLoBits(R.One, TrailBitsKnown1))
          % 2^BitWidth
  IN  KB(BitWidth,
         BitOr(setHighBits(0, LeadZ, BitWidth),
               getLoBits(BitNot(BottomKnown, BitWidth), ResultBitsKnown)),
         getLoBits(BottomKnown, ResultBitsKnown))

computeForMul(L, R) ==
  LET BitWidth == L.BitWidth
      LeadZ == Min(Max(countMinLeadingZeros(L) + countMinLeadingZeros(R), BitWidth)
                     - BitWidth, BitWidth)
      Bottom0 == L.One
      Bottom1 == R.One
      TrailBitsKnown0 == countTrailingOnes(BitOr(L.Zero, L.One))
      TrailBitsKnown1 == countTrailingOnes(BitOr(R.Zero, R.One))
      TrailZero0 == countMinTrailingZeros(L)
      TrailZero1 == countMinTrailingZeros(R)
      TrailZ == TrailZero0 + TrailZero1
      SmallestOperand ==
        Min(TrailBitsKnown0 - TrailZero0, TrailBitsKnown1 - TrailZero1)
      ResultBitsKnown == Min(SmallestOperand + TrailZ, BitWidth)
      BottomKnown ==
        (getLoBits(Bottom0, TrailBitsKnown0) * getLoBits(Bottom1, TrailBitsKnown1))
          % 2^BitWidth
  IN  KB(BitWidth,
         BitOr(setHighBits(0, LeadZ, BitWidth),
               getLoBits(BitNot(BottomKnown, BitWidth), ResultBitsKnown)),
         getLoBits(BottomKnown, ResultBitsKnown))

\* KnownBits::operator&=
KnownAnd(L, R) == KB(L.BitWidth, BitOr(L.Zero, R.Zero), BitAnd(L.One, R.One))

\* KnownBits::operator|=
KnownOr(L, R) == KB(L.BitWidth, BitAnd(L.Zero, R.Zero), BitOr(L.One, R.One))

\* KnownBits::operator^=
KnownXor(L, R) ==
  KB(L.BitWidth,
     BitOr(BitAnd(L.Zero, R.Zero), BitAnd(L.One, R.One)),
     BitOr(BitAnd(L.Zero, R.One), BitAnd(L.One, R.Zero)))

-----------------------------------------------------------------------------
(* The algebra as a state machine: two operands of equal width, satisfying *)
(* Zero & One == 0, and one operator applied to them.                      *)

\* the result of operator o on (L, R); unary operators and makeGE read R as
\* KnownBits.cpp does at their call sites
Apply(o, L, R) ==
  CASE o = "and"    -> KnownAnd(L, R)
    [] o = "or"     -> KnownOr(L, R)
    [] o = "xor"    -> KnownXor(L, R)
    [] o = "add"    -> computeForAddSub(TRUE, FALSE, L, R)
    [] o = "sub"    -> computeForAddSub(FALSE, FALSE, L, R)
    [] o = "addnsw" -> computeForAddSub(TRUE, TRUE, L, R)
    [] o = "subnsw" -> computeForAddSub(FALSE, TRUE, L, R)
    [] o = "mul"    -> computeForMul(L, R)
    [] o = "shl"    -> shl(L, R)
    [] o = "lshr"   -> lshr(L, R)
    [] o = "ashr"   -> ashr(L, R)
    [] o = "umax"   -> umax(L, R)
    [] o = "umin"   -> umin(L, R)
    [] o = "smax"   -> smax(L, R)
    [] o = "smin"   -> smin(L, R)
    [] o = "makeGE" -> makeGE(L, getMinValue(R))
    [] o = "abs"    -> abs(L)

\* umax reaches its two makeGE calls only past both early returns
umaxReachesMakeGE(L, R) ==
  /\ ~(getMinValue(L) >= getMaxValue(R))
  /\ ~(getMinValue(R) >= getMaxValue(L))

NoOperand == [BitWidth |-> 0, Zero |-> 0, One |-> 0]

EmptyCache == [r \in {} |-> NoOperand]

NoQuery == [Entry |-> "none", R |-> 0, DemandedElts |-> FALSE, Depth |-> 0]

NoResult == [Query |-> NoQuery, Value |-> 0]

IrIdle ==
  /\ MRI = <<>>
  /\ MaxDepth = 0
  /\ ComputeKnownBitsCache = EmptyCache
  /\ stack = <<>>
  /\ query = NoQuery
  /\ result = NoResult
  /\ failed = "none"
  /\ steps = 0

AlgInit ==
  /\ \E w \in 1 .. MaxBitWidth :
       /\ LHS \in KnownBitsOf(w)
       /\ RHS \in KnownBitsOf(w)
  /\ Op = "none"
  /\ KnownOut = NoOperand
  /\ Carry = NoOperand
  /\ IrIdle

AlgStep(o) ==
  /\ Op = "none"
  /\ Op' = o
  /\ KnownOut' = Apply(o, LHS, RHS)
  /\ UNCHANGED <<LHS, RHS, Carry>>
  /\ UNCHANGED irVars

DoAnd == AlgStep("and")
DoOr == AlgStep("or")
DoXor == AlgStep("xor")
DoAdd == AlgStep("add")
DoSub == AlgStep("sub")
DoAddNSW == AlgStep("addnsw")
DoSubNSW == AlgStep("subnsw")
DoMul == AlgStep("mul")
DoShl == AlgStep("shl")
DoLshr == AlgStep("lshr")
DoAshr == AlgStep("ashr")
DoUmax == AlgStep("umax")
DoUmin == AlgStep("umin")
DoSmax == AlgStep("smax")
DoSmin == AlgStep("smin")
DoMakeGE == umaxReachesMakeGE(LHS, RHS) /\ AlgStep("makeGE")
DoAbs == AlgStep("abs")

AlgNext ==
  \/ DoAnd \/ DoOr \/ DoXor
  \/ DoAdd \/ DoSub \/ DoAddNSW \/ DoSubNSW
  \/ DoMul
  \/ DoShl \/ DoLshr \/ DoAshr
  \/ DoUmax \/ DoUmin \/ DoSmax \/ DoSmin \/ DoMakeGE
  \/ DoAbs

SpecAlg == AlgInit /\ [][AlgNext]_vars

-----------------------------------------------------------------------------
(* The callers of the static computeForAddCarry: the public                *)
(* KnownBits::computeForAddCarry, whose one-bit Carry may be known zero,   *)
(* known one or unknown, and computeForAddSub, which passes a known zero   *)
(* carry to add and a known one carry and the complement of RHS to         *)
(* subtract.  A failing assertion aborts.                                  *)

\* the two assertions of the static computeForAddCarry
AddCarryAsserts(L, R, CarryZero, CarryOne) ==
  LET Known == AddCarryKnown(L, R, CarryZero, CarryOne)
  IN  IF CarryZero /\ CarryOne
      THEN "Carry can't be zero and one at the same time"
      ELSE IF BitAnd(PossibleSumZero(L, R, CarryZero), Known)
                # BitAnd(PossibleSumOne(L, R, CarryOne), Known)
      THEN "known bits of sum differ"
      ELSE "none"

\* one call of the static computeForAddCarry on behalf of operator o, which
\* returns Out when the call returns
AddCarryStep(o, L, R, CarryZero, CarryOne, Out) ==
  /\ Op = "none"
  /\ failed = "none"
  /\ Op' = o
  /\ failed' = AddCarryAsserts(L, R, CarryZero, CarryOne)
  /\ KnownOut' = IF failed' = "none" THEN Out ELSE KnownOut
  /\ UNCHANGED <<LHS, RHS, Carry>>
  /\ UNCHANGED <<MRI, MaxDepth, ComputeKnownBitsCache, stack, query, result,
                 steps>>

\* KnownBits::computeForAddCarry(LHS, RHS, Carry)
DoAddCarry ==
  IF Carry.BitWidth # 1
  THEN /\ Op = "none"
       /\ failed = "none"
       /\ Op' = "addcarry"
       /\ failed' = "Carry must be 1-bit"
       /\ UNCHANGED <<LHS, RHS, Carry, KnownOut>>
       /\ UNCHANGED <<MRI, MaxDepth, ComputeKnownBitsCache, stack, query,
                      result, steps>>
  ELSE AddCarryStep("addcarry", LHS, RHS, Carry.Zero # 0, Carry.One # 0,
                    computeForAddCarry(LHS, RHS, Carry.Zero # 0, Carry.One # 0))

\* KnownBits::computeForAddSub(Add, NSW, LHS, RHS)
DoAddSub(o, Add, NSW) ==
  LET R == IF Add THEN RHS ELSE KB(RHS.BitWidth, RHS.One, RHS.Zero)
  IN  AddCarryStep(o, LHS, R, Add, ~Add, computeForAddSub(Add, NSW, LHS, RHS))

DoAddPath == \E NSW \in BOOLEAN :
  DoAddSub(IF NSW THEN "addnsw" ELSE "add", TRUE, NSW)

DoSubPath == \E NSW \in BOOLEAN :
  DoAddSub(IF NSW THEN "subnsw" ELSE "sub", FALSE, NSW)

AddCarryInit ==
  /\ \E w \in 1 .. MaxBitWidth :
       /\ LHS \in KnownBitsOf(w)
       /\ RHS \in KnownBitsOf(w)
  /\ Carry \in KnownBitsOf(1)
  /\ Op = "none"
  /\ KnownOut = NoOperand
  /\ IrIdle

AddCarryNext == DoAddCarry \/ DoAddPath \/ DoSubPath

SpecAddCarry == AddCarryInit /\ [][AddCarryNext]_vars

-----------------------------------------------------------------------------
(* Properties of the algebra                                               *)

\* the concrete integer operation that operator o abstracts, on w-bit values
Concrete(o, x, y, w) ==
  CASE o = "and" -> BitAnd(x, y)
    [] o = "or"  -> BitOr(x, y)
    [] o = "xor" -> BitXor(x, y)
    [] o \in {"add", "addnsw"} -> Wrap(x + y, w)
    [] o \in {"sub", "subnsw"} -> Wrap(x - y, w)
    [] o = "mul"  -> Wrap(x * y, w)
    [] o = "shl"  -> APshl(x, y, w)
    [] o = "lshr" -> APlshr(x, y)
    [] o = "ashr" -> APashr(x, y, w)
    [] o = "umax" -> Max(x, y)
    [] o = "umin" -> Min(x, y)
    [] o = "smax" -> IF SignedValue(x, w) >= SignedValue(y, w) THEN x ELSE y
    [] o = "smin" -> IF SignedValue(x, w) <= SignedValue(y, w) THEN x ELSE y
    [] o = "abs"  -> IF SignedValue(x, w) < 0 THEN Wrap(0 - x, w) ELSE x

SignedRange(w) == (0 - 2^(w - 1)) .. (2^(w - 1) - 1)

\* the pairs on which the concrete operation is defined: a shift amount below
\* the width, no signed overflow under noSignedWrap
Defined(o, x, y, w) ==
  /\ o \in {"shl", "lshr", "ashr"} => y < w
  /\ o = "addnsw" => SignedValue(x, w) + SignedValue(y, w) \in SignedRange(w)
  /\ o = "subnsw" => SignedValue(x, w) - SignedValue(y, w) \in SignedRange(w)

\* the fully known KnownBits of the w-bit value c
ConstantKB(c, w) == KB(w, BitNot(c, w), c)

Consistent(o) ==
  \A x \in Concretes(LHS), y \in Concretes(RHS) :
     Defined(o, x, y, LHS.BitWidth)
       => Matches(Concrete(o, x, y, LHS.BitWidth), KnownOut)

Exact(o) ==
  KnownOut = ConstantKB(Concrete(o, LHS.One, RHS.One, LHS.BitWidth), LHS.BitWidth)

Monotone(o) ==
  \A A2 \in KnownBitsOf(LHS.BitWidth) :
     Refines(A2, LHS) => Refines(Apply(o, A2, RHS), KnownOut)

AddSubOps == {"add", "sub", "addnsw", "subnsw"}
MinMaxOps == {"umax", "umin", "smax", "smin"}
ExactOps == {"and", "or", "xor", "add", "sub", "mul", "shl", "lshr", "ashr",
             "umax", "umin", "smax", "smin", "abs"}
MonotoneOps == {"and", "or", "xor", "add", "sub", "addnsw", "subnsw", "mul",
                "shl", "lshr", "ashr", "umax", "umin", "smax", "smin", "abs"}

\* C5: every operator of the algebra (and, or, xor, addSub with and without
\* noSignedWrap, computeForMul, shl, lshr, ashr, umax, umin, smax, smin, the
\* makeGE calls of umax, abs), applied to conflict-free operands of equal
\* width, returns a result with Zero & One == 0.
C5_NoConflict == Op # "none" => ~hasConflict(KnownOut)

\* C5 witness: umax is past its early returns and makeGE has forced a one bit
\* that the operand did not already know.
C5_Witness == Op = "makeGE" /\ KnownOut.One # LHS.One

\* C6: x + y (resp. x - y) mod 2^w matches addSub for all x matching LHS and y
\* matching RHS; with noSignedWrap, for the pairs whose signed sum (difference)
\* does not overflow.
C6_AddSubConsistent == Op \in AddSubOps => Consistent(Op)

\* C6 witness: a subtraction under noSignedWrap whose sign bit the flag decided,
\* with a pair of concrete operands that does not overflow.
C6_Witness ==
  /\ Op = "subnsw"
  /\ KnownOut # Apply("sub", LHS, RHS)
  /\ \E x \in Concretes(LHS), y \in Concretes(RHS) :
        Defined("subnsw", x, y, LHS.BitWidth)

\* C7: (x * y) mod 2^w matches computeForMul(LHS, RHS) for all x matching LHS
\* and y matching RHS.
C7_MulConsistent == Op = "mul" => Consistent("mul")

\* C7 witness: a product of two operands that are not constants, of which some
\* low bit is known one and some low bit known zero.
C7_Witness ==
  /\ Op = "mul"
  /\ ~isConstant(LHS) /\ ~isConstant(RHS)
  /\ KnownOut.One # 0 /\ KnownOut.Zero # 0

\* C8: the unsigned/signed maximum/minimum of x and y matches umax, umin, smax,
\* smin of (LHS, RHS) for all x matching LHS and y matching RHS.
C8_MinMaxConsistent == Op \in MinMaxOps => Consistent(Op)

\* C8 witness: a signed minimum decided by neither early return of umax, that
\* still knows a bit.
C8_Witness ==
  /\ Op = "smin"
  /\ umaxReachesMakeGE(smin_Flip(LHS), smin_Flip(RHS))
  /\ ~isUnknown(KnownOut)

\* C9 as stated: on fully known operands every operator, abs included, returns
\* the fully known exact result (shifts: for an amount below the width).
C9_ConstantsExact_Original ==
  (/\ Op \in ExactOps
   /\ isConstant(LHS) /\ isConstant(RHS)
   /\ Defined(Op, LHS.One, RHS.One, LHS.BitWidth)) => Exact(Op)

\* C9 amended: on fully known operands every operator but abs returns the fully
\* known exact result (shifts: for an amount below the width); abs does so for
\* a non-negative constant, and for a negative constant returns a value that is
\* not fully known (at most the sign bit, known zero).
C9_ConstantsExact ==
  (/\ Op \in ExactOps
   /\ isConstant(LHS) /\ isConstant(RHS)
   /\ Defined(Op, LHS.One, RHS.One, LHS.BitWidth))
  => IF Op = "abs" /\ isNegative(LHS)
     THEN /\ KnownOut.One = 0
          /\ KnownOut.Zero \in {0, setSignBit(0, LHS.BitWidth)}
          /\ ~isConstant(KnownOut)
     ELSE Exact(Op)

\* C9 witness: the product of two constants with trailing zeros, and (in
\* another state) abs of a negative constant.
C9_Witness ==
  /\ Op = "mul" /\ isConstant(LHS) /\ isConstant(RHS)
  /\ LHS.One # 0 /\ RHS.One # 0
  /\ countMinTrailingZeros(LHS) > 0 /\ countMinTrailingZeros(RHS) > 0

\* C10 as stated: every operator, addSub under either flag included, is
\* monotone in its first operand.
C10_Monotone_Original == Op \in MonotoneOps => Monotone(Op)

\* C10 amended: and, or, xor, addSub with noSignedWrap = false, computeForMul,
\* shl, lshr, ashr, umax, umin, smax, smin and abs are monotone in the first
\* operand: if A2 refines LHS then op(A2, RHS) refines op(LHS, RHS).
C10_Monotone ==
  Op \in MonotoneOps \ {"addnsw", "subnsw"} => Monotone(Op)

\* C10 witness: umax on an operand that has a strict refinement, with a result
\* that knows a bit.
C10_Witness ==
  /\ Op = "umax"
  /\ ~isConstant(LHS)
  /\ ~isUnknown(KnownOut)
  /\ umaxReachesMakeGE(LHS, RHS)

-----------------------------------------------------------------------------
(* The machine function: registers, types, instructions                    *)

\* the virtual registers of the function
Regs == {0, 1, 2}

\* a physical register: an operand that is not virtual
PhysReg == 0 - 1

isVirtual(r) == r \in Regs

\* LLT: a scalar of w bits, a vector of n elements of w bits, or no type (a
\* register constrained by a register class only)
Scalar(w) == [Valid |-> TRUE, Vector |-> FALSE, Bits |-> w, Elts |-> 1]
VectorTy(n, w) == [Valid |-> TRUE, Vector |-> TRUE, Bits |-> w, Elts |-> n]
NoType == [Valid |-> FALSE, Vector |-> FALSE, Bits |-> 0, Elts |-> 0]

getSizeInBits(Ty) == Ty.Bits * Ty.Elts
getScalarSizeInBits(Ty) == Ty.Bits

\* MachineInstr: Defs are its explicit defs (operands 0 ..), Ops its register
\* use operands in operand order, Imm its immediate (the value of a G_CONSTANT,
\* the bit size of a load's memory operand, the width of a G_SEXT_INREG),
\* TargetKnown what TargetLowering::computeKnownBitsForTargetInstr reports for
\* it.
MachineInstr(opc, defs, ops, imm, known) ==
  [Opcode |-> opc, Defs |-> defs, Ops |-> ops, Imm |-> imm, TargetKnown |-> known]

\* MachineRegisterInfo: MRI[r].MI is getVRegDef(r), MRI[r].Ty is getType(r)
getVRegDef(R) == MRI[R].MI
getType(R) == MRI[R].Ty

\* operand i of MI, counted as MachineInstr::getOperand does for an
\* instruction with one def: operand 0 is the def, operand i >= 1 the i-th use
getOperandReg(MI, i) == MI.Ops[i]

PhiOpcodes == {"COPY", "G_PHI", "PHI"}
AddSubOpcodes == {"G_ADD", "G_SUB"}
BitwiseOpcodes == {"G_AND", "G_OR", "G_XOR"}
MinMaxOpcodes == {"G_SMIN", "G_SMAX", "G_UMIN", "G_UMAX"}
ShiftOpcodes == {"G_ASHR", "G_LSHR", "G_SHL"}
ExtOpcodes == {"G_SEXT", "G_ANYEXT"}
ZExtTruncOpcodes == {"G_ZEXT", "G_TRUNC"}
\* the opcodes with a case of their own in computeKnownBitsImpl's switch
SwitchOpcodes ==
  PhiOpcodes \cup AddSubOpcodes \cup BitwiseOpcodes \cup MinMaxOpcodes
    \cup ShiftOpcodes \cup ExtOpcodes \cup ZExtTruncOpcodes
    \cup {"G_CONSTANT", "G_MUL", "G_SELECT", "G_ZEXTLOAD", "G_MERGE_VALUES",
          "G_UNMERGE_VALUES"}

-----------------------------------------------------------------------------
(* GISelKnownBits: activation records                                      *)

\* an activation of fn on register R; vals are the KnownBits its callees have
\* returned so far, nums the sign-bit counts, in call order
Frame(fn, R, Demanded, Depth) ==
  [fn |-> fn, R |-> R, DemandedElts |-> Demanded, Depth |-> Depth,
   pc |-> "entry", vals |-> <<>>, nums |-> <<>>]

Top == Head(stack)
TopMI == getVRegDef(Top.R)
TopTy == getType(Top.R)

Running == stack # <<>> /\ failed = "none"
Idle == stack = <<>> /\ failed = "none"

In(fn) == Running /\ Top.fn = fn

\* what an entry point makes of the value v its last callee returned
FinishQuery(v) ==
  CASE query.Entry = "getKnownZeroes" -> v.Zero
    [] query.Entry = "getKnownOnes" -> v.One
    [] query.Entry = "signBitIsZero" ->
         \* maskedValueIsZero(R, APInt::getSignMask(BitWidth))
         LET Mask == setSignBit(0, getScalarSizeInBits(getType(query.R)))
         IN  BitAnd(Mask, v.Zero) = Mask
    [] OTHER -> v

\* the innermost activation returns v: to its caller, which files it under
\* `field`, or to the user when it is the entry point's own
Return(field, v) ==
  LET rest == Tail(stack)
  IN  IF rest = <<>>
      THEN /\ stack' = <<>>
           /\ result' = [Query |-> query, Value |-> FinishQuery(v)]
      ELSE /\ stack' = <<[Head(rest) EXCEPT ![field] = Append(@, v)]>> \o Tail(rest)
           /\ UNCHANGED result

\* the innermost activation calls fn
Call(fn, R, Demanded, Depth) ==
  stack' = <<Frame(fn, R, Demanded, Depth), [Top EXCEPT !.pc = "body"]>> \o Tail(stack)

Tick == steps' = steps + 1

-----------------------------------------------------------------------------
(* GISelKnownBits::computeKnownBitsImpl                                    *)

\* what the code between the entry and the switch decides, in its order
ImplBaseCase(f) ==
  LET DstTy == getType(f.R)
  IN  IF ~DstTy.Valid THEN "invalid type"
      ELSE IF f.R \in DOMAIN ComputeKnownBitsCache THEN "cache hit"
      ELSE IF DstTy.Vector THEN "vector"
      ELSE IF f.Depth >= MaxDepth THEN "max depth"
      ELSE IF ~f.DemandedElts THEN "no demanded elts"
      ELSE "switch"

AtEntry(case) ==
  /\ In("computeKnownBitsImpl")
  /\ Top.pc = "entry"
  /\ ImplBaseCase(Top) = case

\* control is in the switch case of one of `opcodes`
AtCase(opcodes) ==
  /\ In("computeKnownBitsImpl")
  /\ Top.pc = "body" \/ (Top.pc = "entry" /\ ImplBaseCase(Top) = "switch")
  /\ TopMI.Opcode \in opcodes

\* the next thing a switch case does: call computeKnownBitsImpl on an operand,
\* break out of the switch with Known, or return Known at once
CallImpl(R, Depth) == [kind |-> "call", R |-> R, Depth |-> Depth, Known |-> NoOperand]
Break(Known) == [kind |-> "break", R |-> 0, Depth |-> 0, Known |-> Known]
ReturnNow(Known) == [kind |-> "return", R |-> 0, Depth |-> 0, Known |-> Known]

\* after the switch: the assertion, the cache update, the return
PostDispatch(Known) ==
  IF hasConflict(Known)
  THEN /\ failed' = "Bits known to be one AND zero?"
       /\ UNCHANGED <<stack, ComputeKnownBitsCache, result>>
  ELSE /\ ComputeKnownBitsCache' = (Top.R :> Known) @@ ComputeKnownBitsCache
       /\ Return("vals", Known)
       /\ UNCHANGED failed

Perform(plan) ==
  /\ IF plan.kind = "call"
     THEN /\ Call("computeKnownBitsImpl", plan.R, Top.DemandedElts, plan.Depth)
          /\ UNCHANGED <<ComputeKnownBitsCache, result, failed>>
     ELSE IF plan.kind = "break"
     THEN PostDispatch(plan.Known)
     ELSE /\ Return("vals", plan.Known)
          /\ UNCHANGED <<ComputeKnownBitsCache, failed>>
  /\ Tick
  /\ UNCHANGED <<MRI, MaxDepth, query>>
  /\ UNCHANGED algVars

ImplInvalidType == AtEntry("invalid type") /\ Perform(ReturnNow(Unknown(1)))

ImplCacheHit ==
  /\ AtEntry("cache hit")
  /\ IF ComputeKnownBitsCache[Top.R].BitWidth # getSizeInBits(TopTy)
     THEN /\ failed' = "Cache entry size doesn't match"
          /\ Tick
          /\ UNCHANGED <<MRI, MaxDepth, ComputeKnownBitsCache, stack, query, result>>
          /\ UNCHANGED algVars
     ELSE Perform(ReturnNow(ComputeKnownBitsCache[Top.R]))

ImplVector == AtEntry("vector") /\ Perform(ReturnNow(Unknown(getSizeInBits(TopTy))))

ImplMaxDepth == AtEntry("max depth") /\ Perform(ReturnNow(Unknown(getSizeInBits(TopTy))))

ImplNoDemandedElts ==
  AtEntry("no demanded elts") /\ Perform(ReturnNow(Unknown(getSizeInBits(TopTy))))

\* default: TL.computeKnownBitsForTargetInstr
CaseTargetInstr ==
  /\ In("computeKnownBitsImpl")
  /\ Top.pc = "entry" /\ ImplBaseCase(Top) = "switch"
  /\ TopMI.Opcode \notin SwitchOpcodes
  /\ Perform(Break(TopMI.TargetKnown))

\* COPY, G_PHI, PHI: the intersection of the operands seen so far, starting
\* from Zero = One = all ones
\* the first operand's known bits, the others never intersected with them
PhiKnown_FirstOperand(vals, BitWidth) ==
  IF vals = <<>>
  THEN KB(BitWidth, getAllOnesValue(BitWidth), getAllOnesValue(BitWidth))
  ELSE vals[1]

RECURSIVE PhiKnown(_, _)
PhiKnown(vals, BitWidth) ==
  IF vals = <<>>
  THEN KB(BitWidth, getAllOnesValue(BitWidth), getAllOnesValue(BitWidth))
  ELSE LET Known == PhiKnown(SubSeq(vals, 1, Len(vals) - 1), BitWidth)
           Known2 == vals[Len(vals)]
       IN  KB(BitWidth, BitAnd(Known.Zero, Known2.Zero), BitAnd(Known.One, Known2.One))

\* the loop over the operands entered without the provisional entry
CaseCopyPhiBegin_NoProvisional ==
  /\ In("computeKnownBitsImpl")
  /\ Top.pc = "entry" /\ ImplBaseCase(Top) = "switch"
  /\ TopMI.Opcode \in PhiOpcodes
  /\ stack' = <<[Top EXCEPT !.pc = "body"]>> \o Tail(stack)
  /\ Tick
  /\ UNCHANGED <<MRI, MaxDepth, ComputeKnownBitsCache, query, result, failed>>
  /\ UNCHANGED algVars

\* the provisional entry is recorded before the loop over the operands
CaseCopyPhiBegin ==
  /\ In("computeKnownBitsImpl")
  /\ Top.pc = "entry" /\ ImplBaseCase(Top) = "switch"
  /\ TopMI.Opcode \in PhiOpcodes
  /\ ComputeKnownBitsCache' =
       (Top.R :> Unknown(getSizeInBits(TopTy))) @@ ComputeKnownBitsCache
  /\ stack' = <<[Top EXCEPT !.pc = "body"]>> \o Tail(stack)
  /\ Tick
  /\ UNCHANGED <<MRI, MaxDepth, query, result, failed>>
  /\ UNCHANGED algVars

\* mutant: the source of a COPY is computed one level deeper, as that of a phi
PlanCopyPhi_CopyDeeper(f) ==
  LET MI == getVRegDef(f.R)
      BitWidth == getSizeInBits(getType(f.R))
      Known == PhiKnown(f.vals, BitWidth)
      Src == Len(f.vals) + 1
  IN  IF f.vals # <<>> /\ Known.One = 0 /\ Known.Zero = 0 THEN Break(Known)
      ELSE IF Src > Len(MI.Ops) THEN Break(Known)
      ELSE IF isVirtual(MI.Ops[Src]) /\ getType(MI.Ops[Src]).Valid
           THEN CallImpl(MI.Ops[Src], f.Depth + 1)
           ELSE Break(Unknown(BitWidth))

\* one turn of the loop: Idx = 2 * Len(vals) + 1 is the operand looked at
PlanCopyPhi(f) ==
  LET MI == getVRegDef(f.R)
      BitWidth == getSizeInBits(getType(f.R))
      Known == PhiKnown(f.vals, BitWidth)
      Src == Len(f.vals) + 1
  IN  IF f.vals # <<>> /\ Known.One = 0 /\ Known.Zero = 0 THEN Break(Known)
      ELSE IF Src > Len(MI.Ops) THEN Break(Known)
      ELSE IF isVirtual(MI.Ops[Src]) /\ getType(MI.Ops[Src]).Valid
           THEN CallImpl(MI.Ops[Src],
                         f.Depth + (IF MI.Opcode # "COPY" THEN 1 ELSE 0))
           ELSE Break(Unknown(BitWidth))

CaseCopyPhiLoop ==
  /\ In("computeKnownBitsImpl")
  /\ Top.pc = "body"
  /\ TopMI.Opcode \in PhiOpcodes
  /\ Perform(PlanCopyPhi(Top))

CaseConstant ==
  /\ AtCase({"G_CONSTANT"})
  /\ Perform(Break(ConstantKB(TopMI.Imm, getSizeInBits(TopTy))))

\* two operands, `first` computed into Known and then `second` into Known2
TwoOperands(f, first, second, Known) ==
  LET MI == getVRegDef(f.R)
  IN  IF Len(f.vals) = 0 THEN CallImpl(getOperandReg(MI, first), f.Depth + 1)
      ELSE IF Len(f.vals) = 1 THEN CallImpl(getOperandReg(MI, second), f.Depth + 1)
      ELSE Break(Known)

\* G_SUB taken for an addition
PlanAddSub_AlwaysAdd(f) ==
  TwoOperands(f, 1, 2, computeForAddSub(TRUE, FALSE, f.vals[1], f.vals[2]))

PlanAddSub(f) ==
  TwoOperands(f, 1, 2,
    computeForAddSub(getVRegDef(f.R).Opcode = "G_ADD", FALSE, f.vals[1], f.vals[2]))

CaseAddSub == AtCase(AddSubOpcodes) /\ Perform(PlanAddSub(Top))

PlanBitwise(f) ==
  LET Opcode == getVRegDef(f.R).Opcode
  IN  TwoOperands(f, 2, 1,
        IF Opcode = "G_AND" THEN KnownAnd(f.vals[1], f.vals[2])
        ELSE IF Opcode = "G_OR" THEN KnownOr(f.vals[1], f.vals[2])
        ELSE KnownXor(f.vals[1], f.vals[2]))

CaseBitwise == AtCase(BitwiseOpcodes) /\ Perform(PlanBitwise(Top))

PlanMul(f) == TwoOperands(f, 2, 1, computeForMul(f.vals[1], f.vals[2]))

CaseMul == AtCase({"G_MUL"}) /\ Perform(PlanMul(Top))

PlanMinMax(f) ==
  LET Opcode == getVRegDef(f.R).Opcode
  IN  TwoOperands(f, 1, 2,
        IF Opcode = "G_SMIN" THEN smin(f.vals[1], f.vals[2])
        ELSE IF Opcode = "G_SMAX" THEN smax(f.vals[1], f.vals[2])
        ELSE IF Opcode = "G_UMIN" THEN umin(f.vals[1], f.vals[2])
        ELSE umax(f.vals[1], f.vals[2]))

CaseMinMax == AtCase(MinMaxOpcodes) /\ Perform(PlanMinMax(Top))

\* G_SELECT: computeKnownBitsMin(operand 2, operand 3, Depth + 1)
PlanSelect(f) ==
  LET MI == getVRegDef(f.R)
      BitWidth == getSizeInBits(getType(f.R))
  IN  IF Len(f.vals) = 0 THEN CallImpl(getOperandReg(MI, 3), f.Depth + 1)
      ELSE IF Len(f.vals) = 1
      THEN IF isUnknown(f.vals[1]) THEN Break(f.vals[1])
           ELSE CallImpl(getOperandReg(MI, 2), f.Depth + 1)
      ELSE Break(KB(f.vals[1].BitWidth,
                    BitAnd(f.vals[1].Zero, f.vals[2].Zero),
                    BitAnd(f.vals[1].One, f.vals[2].One)))

CaseSelect == AtCase({"G_SELECT"}) /\ Perform(PlanSelect(Top))

PlanExt(f) ==
  LET MI == getVRegDef(f.R)
      BitWidth == getSizeInBits(getType(f.R))
  IN  IF Len(f.vals) = 0 THEN CallImpl(getOperandReg(MI, 1), f.Depth + 1)
      ELSE IF MI.Opcode = "G_SEXT" THEN Break(sext(f.vals[1], BitWidth))
      ELSE Break(anyext(f.vals[1], BitWidth))

CaseExt == AtCase(ExtOpcodes) /\ Perform(PlanExt(Top))

PlanZExtTrunc(f) ==
  LET MI == getVRegDef(f.R)
      BitWidth == getSizeInBits(getType(f.R))
      SrcBitWidth == getSizeInBits(getType(getOperandReg(MI, 1)))
      Known == zextOrTrunc(f.vals[1], BitWidth)
  IN  IF Len(f.vals) = 0 THEN CallImpl(getOperandReg(MI, 1), f.Depth + 1)
      ELSE IF BitWidth > SrcBitWidth
      THEN Break([Known EXCEPT !.Zero = setBitsFrom(@, SrcBitWidth, BitWidth)])
      ELSE Break(Known)

CaseZExtTrunc == AtCase(ZExtTruncOpcodes) /\ Perform(PlanZExtTrunc(Top))

CaseZExtLoad ==
  /\ AtCase({"G_ZEXTLOAD"})
  /\ Perform(Break(KB(getSizeInBits(TopTy),
                      setBitsFrom(0, TopMI.Imm, getSizeInBits(TopTy)), 0)))

\* mutant: no guard against oversized shift amounts
PlanShift_NoOversizeGuard(f) ==
  LET MI == getVRegDef(f.R)
      BitWidth == getSizeInBits(getType(f.R))
      RHSKnown == f.vals[1]
      Shift == getConstant(RHSKnown)
      Known == f.vals[2]
      w == Known.BitWidth
  IN  IF Len(f.vals) = 0 THEN CallImpl(getOperandReg(MI, 2), f.Depth + 1)
      ELSE IF Len(f.vals) = 1
      THEN IF ~isConstant(RHSKnown) THEN Break(Unknown(BitWidth))
           ELSE CallImpl(getOperandReg(MI, 1), f.Depth + 1)
      ELSE IF MI.Opcode = "G_ASHR"
      THEN Break(KB(w, APashr(Known.Zero, Shift, w), APashr(Known.One, Shift, w)))
      ELSE IF MI.Opcode = "G_LSHR"
      THEN Break(KB(w, setBitsFrom(APlshr(Known.Zero, Shift), w - Shift, w),
                    APlshr(Known.One, Shift)))
      ELSE Break(KB(w, setLowBits(APshl(Known.Zero, Shift, w), Shift),
                    APshl(Known.One, Shift, w)))

PlanShift(f) ==
  LET MI == getVRegDef(f.R)
      BitWidth == getSizeInBits(getType(f.R))
      RHSKnown == f.vals[1]
      Shift == getConstant(RHSKnown)
      Known == f.vals[2]
      w == Known.BitWidth
  IN  IF Len(f.vals) = 0 THEN CallImpl(getOperandReg(MI, 2), f.Depth + 1)
      ELSE IF Len(f.vals) = 1
      THEN IF ~isConstant(RHSKnown) THEN Break(Unknown(BitWidth))
           ELSE IF Shift >= getScalarSizeInBits(getType(getOperandReg(MI, 1)))
           THEN Break(Unknown(BitWidth))
           ELSE CallImpl(getOperandReg(MI, 1), f.Depth + 1)
      ELSE IF MI.Opcode = "G_ASHR"
      THEN Break(KB(w, APashr(Known.Zero, Shift, w), APashr(Known.One, Shift, w)))
      ELSE IF MI.Opcode = "G_LSHR"
      THEN Break(KB(w, setBitsFrom(APlshr(Known.Zero, Shift), w - Shift, w),
                    APlshr(Known.One, Shift)))
      ELSE Break(KB(w, setLowBits(APshl(Known.Zero, Shift, w), Shift),
                    APshl(Known.One, Shift, w)))

CaseShift == AtCase(ShiftOpcodes) /\ Perform(PlanShift(Top))

\* G_MERGE_VALUES: part I is inserted at bit I * OpSize
RECURSIVE MergeKnown(_, _, _)
MergeKnown(vals, BitWidth, OpSize) ==
  IF vals = <<>> THEN Unknown(BitWidth)
  ELSE insertBits(MergeKnown(SubSeq(vals, 1, Len(vals) - 1), BitWidth, OpSize),
                  vals[Len(vals)], (Len(vals) - 1) * OpSize)

PlanMerge(f) ==
  LET MI == getVRegDef(f.R)
      BitWidth == getSizeInBits(getType(f.R))
      OpSize == getSizeInBits(getType(getOperandReg(MI, 1)))
  IN  IF Len(f.vals) < Len(MI.Ops)
      THEN CallImpl(getOperandReg(MI, Len(f.vals) + 1), f.Depth + 1)
      ELSE Break(MergeKnown(f.vals, BitWidth, OpSize))

CaseMerge == AtCase({"G_MERGE_VALUES"}) /\ Perform(PlanMerge(Top))

\* G_UNMERGE_VALUES: the source is the last operand, DstIdx the position of R
\* among the defs
PlanUnmerge(f) ==
  LET MI == getVRegDef(f.R)
      BitWidth == getSizeInBits(getType(f.R))
      SrcReg == MI.Ops[1]
      DstIdx == (CHOOSE i \in 1 .. Len(MI.Defs) :
                   /\ MI.Defs[i] = f.R
                   /\ \A j \in 1 .. (i - 1) : MI.Defs[j] # f.R) - 1
  IN  IF getType(SrcReg).Vector THEN ReturnNow(Unknown(BitWidth))
      ELSE IF Len(f.vals) = 0 THEN CallImpl(SrcReg, f.Depth + 1)
      ELSE Break(extractBits(f.vals[1], BitWidth, BitWidth * DstIdx))

CaseUnmerge == AtCase({"G_UNMERGE_VALUES"}) /\ Perform(PlanUnmerge(Top))

-----------------------------------------------------------------------------
(* GISelKnownBits::getKnownBits(Register, const APInt &, unsigned)         *)

Abort(msg) ==
  /\ failed' = msg
  /\ Tick
  /\ UNCHANGED <<MRI, MaxDepth, ComputeKnownBitsCache, stack, query, result>>
  /\ UNCHANGED algVars

\* the assertion, then computeKnownBitsImpl(R, Known, DemandedElts), whose
\* Depth parameter takes its default value
GetKnownBitsEnter ==
  /\ In("getKnownBits")
  /\ Top.pc = "entry"
  /\ IF DOMAIN ComputeKnownBitsCache # {}
     THEN Abort("Cache should have been cleared")
     ELSE /\ Call("computeKnownBitsImpl", Top.R, Top.DemandedElts, 0)
          /\ Tick
          /\ UNCHANGED <<MRI, MaxDepth, ComputeKnownBitsCache, query, result, failed>>
          /\ UNCHANGED algVars

\* the return without ComputeKnownBitsCache.clear()
GetKnownBitsExit_NoClear ==
  /\ In("getKnownBits")
  /\ Top.pc = "body"
  /\ Return("vals", Top.vals[1])
  /\ Tick
  /\ UNCHANGED <<MRI, MaxDepth, ComputeKnownBitsCache, query, failed>>
  /\ UNCHANGED algVars

GetKnownBitsExit ==
  /\ In("getKnownBits")
  /\ Top.pc = "body"
  /\ ComputeKnownBitsCache' = EmptyCache
  /\ Return("vals", Top.vals[1])
  /\ Tick
  /\ UNCHANGED <<MRI, MaxDepth, query, failed>>
  /\ UNCHANGED algVars

-----------------------------------------------------------------------------
(* GISelKnownBits::computeNumSignBits                                      *)

\* the opcodes with a case of their own in computeNumSignBits' switch
NumSignBitsOpcodes ==
  {"COPY", "G_SEXT", "G_SEXT_INREG", "G_SEXTLOAD", "G_ZEXTLOAD", "G_TRUNC",
   "G_SELECT"}

\* what the code before the switch decides, in its order
NumSignBitsBaseCase(f) ==
  IF getVRegDef(f.R).Opcode = "G_CONSTANT" THEN "constant"
  ELSE IF f.Depth = MaxDepth THEN "max depth"
  ELSE IF ~f.DemandedElts THEN "no demanded elts"
  ELSE IF ~getType(f.R).Valid THEN "invalid type"
  ELSE "switch"

NsbAtEntry(case) ==
  /\ In("computeNumSignBits")
  /\ Top.pc = "entry"
  /\ NumSignBitsBaseCase(Top) = case

NsbAtCase(opcodes) ==
  /\ In("computeNumSignBits")
  /\ Top.pc = "body" \/ (Top.pc = "entry" /\ NumSignBitsBaseCase(Top) = "switch")
  /\ TopMI.Opcode \in opcodes

CallNumSignBits(R, Depth) == [kind |-> "call", R |-> R, Depth |-> Depth, Bits |-> 0]
ReturnBits(n) == [kind |-> "return", R |-> 0, Depth |-> 0, Bits |-> n]
\* break out of the switch with FirstAnswer = n
BreakFirstAnswer(n) == [kind |-> "break", R |-> 0, Depth |-> 0, Bits |-> n]

NsbPerform(plan) ==
  /\ IF plan.kind = "call"
     THEN /\ Call("computeNumSignBits", plan.R, Top.DemandedElts, plan.Depth)
          /\ UNCHANGED result
     ELSE IF plan.kind = "return"
     THEN Return("nums", plan.Bits)
     ELSE /\ stack' = <<[Top EXCEPT !.pc = "known", !.nums = <<plan.Bits>>]>>
                        \o Tail(stack)
          /\ UNCHANGED result
  /\ Tick
  /\ UNCHANGED <<MRI, MaxDepth, ComputeKnownBitsCache, query, failed>>
  /\ UNCHANGED algVars

NumSignBitsConstant ==
  /\ NsbAtEntry("constant")
  /\ NsbPerform(ReturnBits(getNumSignBits(TopMI.Imm, getSizeInBits(TopTy))))

NumSignBitsMaxDepth == NsbAtEntry("max depth") /\ NsbPerform(ReturnBits(1))

NumSignBitsNoDemandedElts == NsbAtEntry("no demanded elts") /\ NsbPerform(ReturnBits(1))

NumSignBitsInvalidType == NsbAtEntry("invalid type") /\ NsbPerform(ReturnBits(1))

PlanNumSignBitsCopy(f) ==
  LET Src == getOperandReg(getVRegDef(f.R), 1)
  IN  IF Len(f.nums) = 1 THEN ReturnBits(f.nums[1])
      ELSE IF isVirtual(Src) /\ getType(Src).Valid
      THEN CallNumSignBits(Src, f.Depth)
      ELSE ReturnBits(1)

NumSignBitsCopy == NsbAtCase({"COPY"}) /\ NsbPerform(PlanNumSignBitsCopy(Top))

\* the sign bits of the source, the bits of the extension not added
PlanNumSignBitsSExt_NoExtension(f) ==
  LET Src == getOperandReg(getVRegDef(f.R), 1)
  IN  IF Len(f.nums) = 0 THEN CallNumSignBits(Src, f.Depth + 1)
      ELSE ReturnBits(f.nums[1])

PlanNumSignBitsSExt(f) ==
  LET Src == getOperandReg(getVRegDef(f.R), 1)
      Tmp == getScalarSizeInBits(getType(f.R)) - getScalarSizeInBits(getType(Src))
  IN  IF Len(f.nums) = 0 THEN CallNumSignBits(Src, f.Depth + 1)
      ELSE ReturnBits(f.nums[1] + Tmp)

NumSignBitsSExt == NsbAtCase({"G_SEXT"}) /\ NsbPerform(PlanNumSignBitsSExt(Top))

PlanNumSignBitsSExtInReg(f) ==
  LET MI == getVRegDef(f.R)
      TyBits == getScalarSizeInBits(getType(f.R))
      InRegBits == TyBits - MI.Imm + 1
  IN  IF Len(f.nums) = 0 THEN CallNumSignBits(getOperandReg(MI, 1), f.Depth + 1)
      ELSE ReturnBits(Max(f.nums[1], InRegBits))

NumSignBitsSExtInReg ==
  NsbAtCase({"G_SEXT_INREG"}) /\ NsbPerform(PlanNumSignBitsSExtInReg(Top))

\* G_SEXTLOAD and G_ZEXTLOAD: Imm is the size of the memory operand
PlanNumSignBitsExtLoad(f) ==
  LET MI == getVRegDef(f.R)
      TyBits == getScalarSizeInBits(getType(f.R))
  IN  IF getType(f.R).Vector THEN ReturnBits(1)
      ELSE IF MI.Opcode = "G_SEXTLOAD" THEN ReturnBits(TyBits - MI.Imm + 1)
      ELSE ReturnBits(TyBits - MI.Imm)

NumSignBitsExtLoad ==
  NsbAtCase({"G_SEXTLOAD", "G_ZEXTLOAD"}) /\ NsbPerform(PlanNumSignBitsExtLoad(Top))

PlanNumSignBitsTrunc(f) ==
  LET Src == getOperandReg(getVRegDef(f.R), 1)
      DstTyBits == getScalarSizeInBits(getType(f.R))
      NumSrcBits == getScalarSizeInBits(getType(Src))
      NumSrcSignBits == f.nums[1]
  IN  IF Len(f.nums) = 0 THEN CallNumSignBits(Src, f.Depth + 1)
      ELSE IF NumSrcSignBits > NumSrcBits - DstTyBits
      THEN ReturnBits(NumSrcSignBits - (NumSrcBits - DstTyBits))
      ELSE BreakFirstAnswer(1)

NumSignBitsTrunc == NsbAtCase({"G_TRUNC"}) /\ NsbPerform(PlanNumSignBitsTrunc(Top))

\* G_SELECT: computeNumSignBitsMin(operand 2, operand 3, Depth + 1)
PlanNumSignBitsSelect(f) ==
  LET MI == getVRegDef(f.R)
  IN  IF Len(f.nums) = 0 THEN CallNumSignBits(getOperandReg(MI, 3), f.Depth + 1)
      ELSE IF Len(f.nums) = 1
      THEN IF f.nums[1] = 1 THEN ReturnBits(1)
           ELSE CallNumSignBits(getOperandReg(MI, 2), f.Depth + 1)
      ELSE ReturnBits(Min(f.nums[2], f.nums[1]))

NumSignBitsSelect == NsbAtCase({"G_SELECT"}) /\ NsbPerform(PlanNumSignBitsSelect(Top))

\* the target's answer taken for FirstAnswer as it is
NumSignBitsTargetInstr_Unclamped ==
  /\ In("computeNumSignBits")
  /\ Top.pc = "entry" /\ NumSignBitsBaseCase(Top) = "switch"
  /\ TopMI.Opcode \notin NumSignBitsOpcodes
  /\ \E NumBits \in 0 .. getScalarSizeInBits(TopTy) : NsbPerform(BreakFirstAnswer(NumBits))

\* default: TL.computeNumSignBitsForTargetInstr answers any NumBits
NumSignBitsTargetInstr ==
  /\ In("computeNumSignBits")
  /\ Top.pc = "entry" /\ NumSignBitsBaseCase(Top) = "switch"
  /\ TopMI.Opcode \notin NumSignBitsOpcodes
  /\ \E NumBits \in 0 .. getScalarSizeInBits(TopTy) :
       NsbPerform(BreakFirstAnswer(IF NumBits > 1 THEN Max(1, NumBits) ELSE 1))

\* after the switch: getKnownBits(R, DemandedElts, Depth)
NumSignBitsGetKnownBits ==
  /\ In("computeNumSignBits")
  /\ Top.pc = "known"
  /\ Top.vals = <<>>
  /\ stack' = <<Frame("getKnownBits", Top.R, Top.DemandedElts, Top.Depth), Top>>
                \o Tail(stack)
  /\ Tick
  /\ UNCHANGED <<MRI, MaxDepth, ComputeKnownBitsCache, query, result, failed>>
  /\ UNCHANGED algVars

\* the sign bits the known bits prove, against FirstAnswer
NumSignBitsFromKnown(f) ==
  LET Known == f.vals[1]
      FirstAnswer == f.nums[1]
      TyBits == getScalarSizeInBits(getType(f.R))
      Mask == IF isNonNegative(Known) THEN Known.Zero ELSE Known.One
  IN  IF ~isNonNegative(Known) /\ ~isNegative(Known) THEN FirstAnswer
      ELSE Max(FirstAnswer,
               countLeadingOnes(APshl(Mask, Known.BitWidth - TyBits, Known.BitWidth),
                                Known.BitWidth))

NumSignBitsFinish ==
  /\ In("computeNumSignBits")
  /\ Top.pc = "known"
  /\ Top.vals # <<>>
  /\ NsbPerform(ReturnBits(NumSignBitsFromKnown(Top)))

-----------------------------------------------------------------------------
(* The entry points                                                        *)

QueryDepths == 0 .. MaxDepthBound

\* the DemandedElts (some element or none) and Depth a caller passes
QueryArgs == ({TRUE} \X QueryDepths) \cup {<<FALSE, 0>>}

StartQuery(entry, fn, R, Demanded, Depth) ==
  /\ Idle
  /\ query = NoQuery
  /\ query' = [Entry |-> entry, R |-> R, DemandedElts |-> Demanded, Depth |-> Depth]
  /\ result' = NoResult
  /\ stack' = <<Frame(fn, R, Demanded, Depth)>>
  /\ steps' = 0
  /\ UNCHANGED <<MRI, MaxDepth, ComputeKnownBitsCache, failed>>
  /\ UNCHANGED algVars

\* getKnownBits(MachineInstr &), for an instruction with a single def
getKnownBitsMI ==
  \E R \in Regs :
    /\ Len(getVRegDef(R).Defs) = 1
    /\ StartQuery("getKnownBits(MI)", "getKnownBits", getVRegDef(R).Defs[1], TRUE, 0)

\* getKnownBits(Register): every element demanded
getKnownBitsReg ==
  \E R \in Regs : StartQuery("getKnownBits(R)", "getKnownBits", R, TRUE, 0)

getKnownBitsDemanded ==
  \E R \in Regs, args \in QueryArgs :
    StartQuery("getKnownBits(R, DemandedElts, Depth)", "getKnownBits",
               R, args[1], args[2])

getKnownZeroes ==
  \E R \in Regs : StartQuery("getKnownZeroes", "getKnownBits", R, TRUE, 0)

getKnownOnes ==
  \E R \in Regs : StartQuery("getKnownOnes", "getKnownBits", R, TRUE, 0)

\* signBitIsZero(Register), for a register of scalar type
signBitIsZero ==
  \E R \in Regs :
    /\ getType(R).Valid /\ ~getType(R).Vector
    /\ StartQuery("signBitIsZero", "getKnownBits", R, TRUE, 0)

\* computeNumSignBits(Register, unsigned)
computeNumSignBitsReg ==
  \E R \in Regs, Depth \in {0, MaxDepthBound} :
    StartQuery("computeNumSignBits(R, Depth)", "computeNumSignBits", R, TRUE, Depth)

computeNumSignBitsDemanded ==
  \E R \in Regs, args \in QueryArgs :
    StartQuery("computeNumSignBits(R, DemandedElts, Depth)", "computeNumSignBits",
               R, args[1], args[2])

KnownBitsEntries ==
  {"getKnownBits(MI)", "getKnownBits(R)", "getKnownBits(R, DemandedElts, Depth)"}

NumSignBitsEntries ==
  {"computeNumSignBits(R, Depth)", "computeNumSignBits(R, DemandedElts, Depth)"}

-----------------------------------------------------------------------------
(* The machine functions analysed                                          *)

VReg(MI, Ty) == [MI |-> MI, Ty |-> Ty]

MachineFunction(d0, d1, d2) == (0 :> d0) @@ (1 :> d1) @@ (2 :> d2)

GConstant(r, c) == MachineInstr("G_CONSTANT", <<r>>, <<>>, c, NoOperand)

\* an instruction only the target knows: K is what
\* computeKnownBitsForTargetInstr answers for it
GIntrinsic(r, K) == MachineInstr("G_INTRINSIC", <<r>>, <<>>, 0, K)

Generic(opc, r, ops) == MachineInstr(opc, <<r>>, ops, 0, NoOperand)

\* a w-bit value: a constant, or an instruction of the target's
Leaves(r, w) ==
  {VReg(GConstant(r, c), Scalar(w)) : c \in {1, 2^w - 1}}
    \cup {VReg(GIntrinsic(r, K), Scalar(w)) :
            K \in {Unknown(w), KB(w, 0, 1), KB(w, 2^(w - 1), 0)}}

\* fewer of them, where the graph is what matters
SomeLeaves(r, w) ==
  {VReg(GConstant(r, 2^w - 2), Scalar(w)), VReg(GIntrinsic(r, Unknown(w)), Scalar(w))}

BinaryOpcodes ==
  AddSubOpcodes \cup BitwiseOpcodes \cup MinMaxOpcodes \cup ShiftOpcodes \cup {"G_MUL"}

\* %2 = op %0, %1 and %2 = G_SELECT %0, %0, %1 over two leaves
BinaryFunctions ==
  {MachineFunction(a, b, VReg(Generic(opc, 2, <<0, 1>>), Scalar(RegBits))) :
     a \in Leaves(0, RegBits), b \in Leaves(1, RegBits), opc \in BinaryOpcodes}
    \cup {MachineFunction(a, b, VReg(Generic("G_SELECT", 2, <<0, 0, 1>>), Scalar(RegBits))) :
            a \in Leaves(0, RegBits), b \in Leaves(1, RegBits)}

\* %1 = ext %0 to twice the width, %2 = G_TRUNC %1
ExtFunctions ==
  {MachineFunction(a, VReg(Generic(opc, 1, <<0>>), Scalar(2 * RegBits)),
                   VReg(Generic("G_TRUNC", 2, <<1>>), Scalar(RegBits))) :
     a \in Leaves(0, RegBits), opc \in {"G_SEXT", "G_ZEXT", "G_ANYEXT"}}

\* %2 = G_MERGE_VALUES %0, %1
MergeFunctions ==
  {MachineFunction(a, b, VReg(Generic("G_MERGE_VALUES", 2, <<0, 1>>), Scalar(2 * RegBits))) :
     a \in Leaves(0, RegBits), b \in Leaves(1, RegBits)}

\* %1, %2 = G_UNMERGE_VALUES %0, with %0 a scalar or a vector
UnmergeFunctions ==
  LET Unmerge == MachineInstr("G_UNMERGE_VALUES", <<1, 2>>, <<0>>, 0, NoOperand)
  IN  {MachineFunction(a, VReg(Unmerge, Scalar(RegBits)), VReg(Unmerge, Scalar(RegBits))) :
         a \in {VReg(GConstant(0, c), Scalar(2 * RegBits)) :
                  c \in {0, 2^RegBits - 1, 2^RegBits, 2^(2 * RegBits) - 2}}
                 \cup {VReg(GIntrinsic(0, Unknown(2 * RegBits)), Scalar(2 * RegBits)),
                       VReg(GIntrinsic(0, Unknown(2 * RegBits)), VectorTy(2, RegBits))}}

\* %0 = an extending load of Imm bits, %1 = G_SEXT_INREG %0, Imm,
\* %2 = G_TRUNC %1
LoadFunctions ==
  {MachineFunction(
     VReg(MachineInstr(ld, <<0>>, <<>>, m, Unknown(2 * RegBits)), Scalar(2 * RegBits)),
     VReg(MachineInstr("G_SEXT_INREG", <<1>>, <<0>>, s, Unknown(2 * RegBits)),
          Scalar(2 * RegBits)),
     c) :
     ld \in {"G_ZEXTLOAD", "G_SEXTLOAD"}, m \in {1, 2 * RegBits - 1},
     s \in {1, RegBits, 2 * RegBits},
     c \in {VReg(Generic("G_TRUNC", 2, <<1>>), Scalar(RegBits))}}

\* %0 = COPY of a physical register into a register with or without a type,
\* %1 = COPY %0, %2 = COPY %1 or an operation on %1
PhysRegFunctions ==
  {MachineFunction(VReg(Generic("COPY", 0, <<PhysReg>>), Ty),
                   VReg(Generic("COPY", 1, <<0>>), Scalar(RegBits)), c) :
     Ty \in {NoType, Scalar(RegBits)},
     c \in {VReg(Generic("COPY", 2, <<1>>), Scalar(RegBits))}
            \cup {VReg(Generic(opc, 2, <<1, 1>>), Scalar(RegBits)) : opc \in {"G_ADD", "G_AND"}}}

\* %0 and %1 are copies or phis of any of the three registers, %2 is a leaf
CopyPhi(r) ==
  {Generic("COPY", r, <<x>>) : x \in Regs}
    \cup {Generic("PHI", r, <<x>>) : x \in Regs}
    \cup {Generic("G_PHI", r, <<x, y>>) : x \in Regs, y \in Regs \ {r}}
    \cup {Generic("G_PHI", r, <<>>)}

\* a use in a COPY is dominated by its def: no cycle is made of copies only
CopyCycle(p0, p1) ==
  \/ p0.Opcode = "COPY" /\ p0.Ops[1] = 0
  \/ p1.Opcode = "COPY" /\ p1.Ops[1] = 1
  \/ p0.Opcode = "COPY" /\ p0.Ops[1] = 1 /\ p1.Opcode = "COPY" /\ p1.Ops[1] = 0

PhiFunctions ==
  {MachineFunction(VReg(pp[1], Scalar(RegBits)), VReg(pp[2], Scalar(RegBits)), c) :
     pp \in {q \in CopyPhi(0) \X CopyPhi(1) : ~CopyCycle(q[1], q[2])},
     c \in SomeLeaves(2, RegBits)}

\* %0 is a leaf, %1 = op %0, %0 and %2 = op %1, %x: a register reached twice
\* and at two depths
ChainOpcodes == {"G_ADD", "G_AND", "G_XOR"}

ChainFunctions ==
  {MachineFunction(a, VReg(Generic(op1, 1, <<0, 0>>), Scalar(RegBits)),
                   VReg(Generic(op2, 2, <<1, x>>), Scalar(RegBits))) :
     a \in SomeLeaves(0, RegBits), op1 \in ChainOpcodes, op2 \in ChainOpcodes,
     x \in {0, 1}}

\* %0 is a leaf, %1 = G_PHI %0, %2 and %2 = op %1, %0: a loop
LoopFunctions ==
  {MachineFunction(a, VReg(Generic("G_PHI", 1, <<0, 2>>), Scalar(RegBits)),
                   VReg(Generic(opc, 2, <<1, 0>>), Scalar(RegBits))) :
     a \in SomeLeaves(0, RegBits), opc \in ChainOpcodes \cup {"G_OR", "G_UMAX"}}

MachineFunctions ==
  BinaryFunctions \cup ExtFunctions \cup MergeFunctions \cup UnmergeFunctions
    \cup LoadFunctions \cup PhysRegFunctions \cup PhiFunctions \cup ChainFunctions
    \cup LoopFunctions

-----------------------------------------------------------------------------
(* The analysis of one machine function                                    *)

Init ==
  /\ MRI \in MachineFunctions
  /\ MaxDepth \in 0 .. MaxDepthBound
  /\ ComputeKnownBitsCache = EmptyCache
  /\ stack = <<>>
  /\ query = NoQuery
  /\ result = NoResult
  /\ failed = "none"
  /\ steps = 0
  /\ LHS = NoOperand
  /\ RHS = NoOperand
  /\ Op = "none"
  /\ KnownOut = NoOperand
  /\ Carry = NoOperand

\* the caller has the answer and the analyzer is ready for the next query
TakeResult ==
  /\ Idle
  /\ query # NoQuery
  /\ query' = NoQuery
  /\ result' = NoResult
  /\ steps' = 0
  /\ UNCHANGED <<MRI, MaxDepth, ComputeKnownBitsCache, stack, failed>>
  /\ UNCHANGED algVars

Next ==
  \/ getKnownBitsMI \/ getKnownBitsReg \/ getKnownBitsDemanded
  \/ getKnownZeroes \/ getKnownOnes \/ signBitIsZero
  \/ computeNumSignBitsReg \/ computeNumSignBitsDemanded
  \/ TakeResult
  \/ GetKnownBitsEnter \/ GetKnownBitsExit
  \/ ImplInvalidType \/ ImplCacheHit \/ ImplVector \/ ImplMaxDepth
  \/ ImplNoDemandedElts
  \/ CaseTargetInstr \/ CaseCopyPhiBegin \/ CaseCopyPhiLoop \/ CaseConstant
  \/ CaseAddSub \/ CaseBitwise \/ CaseMul \/ CaseMinMax \/ CaseSelect
  \/ CaseExt \/ CaseZExtTrunc \/ CaseZExtLoad \/ CaseShift \/ CaseMerge
  \/ CaseUnmerge
  \/ NumSignBitsConstant \/ NumSignBitsMaxDepth \/ NumSignBitsNoDemandedElts
  \/ NumSignBitsInvalidType \/ NumSignBitsCopy \/ NumSignBitsSExt
  \/ NumSignBitsSExtInReg \/ NumSignBitsExtLoad \/ NumSignBitsTrunc
  \/ NumSignBitsSelect \/ NumSignBitsTargetInstr \/ NumSignBitsGetKnownBits
  \/ NumSignBitsFinish

Spec == Init /\ [][Next]_vars

\* the known-bits queries alone
NextKnownBits ==
  \/ getKnownBitsMI \/ getKnownBitsReg \/ getKnownBitsDemanded
  \/ getKnownZeroes \/ getKnownOnes \/ signBitIsZero
  \/ TakeResult
  \/ GetKnownBitsEnter \/ GetKnownBitsExit
  \/ ImplInvalidType \/ ImplCacheHit \/ ImplVector \/ ImplMaxDepth
  \/ ImplNoDemandedElts
  \/ CaseTargetInstr \/ CaseCopyPhiBegin \/ CaseCopyPhiLoop \/ CaseConstant
  \/ CaseAddSub \/ CaseBitwise \/ CaseMul \/ CaseMinMax \/ CaseSelect
  \/ CaseExt \/ CaseZExtTrunc \/ CaseZExtLoad \/ CaseShift \/ CaseMerge
  \/ CaseUnmerge

SpecKnownBits == Init /\ [][NextKnownBits]_vars

-----------------------------------------------------------------------------
(* Known-bits queries on graphs of copies and phis, cycles of every kind   *)
(* included                                                                *)

\* %0 = G_PHI of %1 and %2, %1 = G_PHI of %0 and %2, in either order each,
\* %2 = G_CONSTANT 42 in the narrowest type that holds it
PhiCycleTy == Scalar(6)

PhiCycleFunctions ==
  {MachineFunction(VReg(Generic("G_PHI", 0, o0), PhiCycleTy),
                   VReg(Generic("G_PHI", 1, o1), PhiCycleTy),
                   VReg(GConstant(2, 42), PhiCycleTy)) :
     o0 \in {<<1, 2>>, <<2, 1>>}, o1 \in {<<0, 2>>, <<2, 0>>}}

CopyPhiFunctions ==
  {MachineFunction(VReg(p0, Scalar(RegBits)), VReg(p1, Scalar(RegBits)), c) :
     p0 \in CopyPhi(0), p1 \in CopyPhi(1), c \in SomeLeaves(2, RegBits)}
    \cup {MachineFunction(VReg(p0, Scalar(RegBits)), VReg(p1, Scalar(RegBits)),
                          VReg(p2, Scalar(RegBits))) :
            p0 \in {Generic("COPY", 0, <<1>>), Generic("PHI", 0, <<1>>)},
            p1 \in {Generic("COPY", 1, <<2>>), Generic("G_PHI", 1, <<2, 0>>)},
            p2 \in {Generic("COPY", 2, <<0>>), Generic("G_PHI", 2, <<0, 1>>)}}
    \cup PhiCycleFunctions

InitCycles ==
  /\ MRI \in CopyPhiFunctions
  /\ MaxDepth \in 0 .. MaxDepthBound
  /\ ComputeKnownBitsCache = EmptyCache
  /\ stack = <<>>
  /\ query = NoQuery
  /\ result = NoResult
  /\ failed = "none"
  /\ steps = 0
  /\ LHS = NoOperand
  /\ RHS = NoOperand
  /\ Op = "none"
  /\ KnownOut = NoOperand
  /\ Carry = NoOperand

NextCopyPhi ==
  \/ getKnownBitsMI \/ getKnownBitsReg \/ getKnownBitsDemanded
  \/ getKnownZeroes \/ getKnownOnes \/ signBitIsZero
  \/ TakeResult
  \/ GetKnownBitsEnter \/ GetKnownBitsExit
  \/ ImplCacheHit \/ ImplMaxDepth \/ ImplNoDemandedElts
  \/ CaseTargetInstr \/ CaseCopyPhiBegin \/ CaseCopyPhiLoop \/ CaseConstant

SpecCycles == InitCycles /\ [][NextCopyPhi]_vars

-----------------------------------------------------------------------------
(* Properties of the analysis                                              *)

\* the values a register can hold
ValuesOf(r) ==
  IF getType(r).Valid /\ ~getType(r).Vector THEN APIntOf(getSizeInBits(getType(r)))
  ELSE {0}

GenericOp(opc) ==
  CASE opc = "G_ADD" -> "add" [] opc = "G_SUB" -> "sub" [] opc = "G_MUL" -> "mul"
    [] opc = "G_AND" -> "and" [] opc = "G_OR" -> "or" [] opc = "G_XOR" -> "xor"
    [] opc = "G_SHL" -> "shl" [] opc = "G_LSHR" -> "lshr" [] opc = "G_ASHR" -> "ashr"
    [] opc = "G_SMIN" -> "smin" [] opc = "G_SMAX" -> "smax"
    [] opc = "G_UMIN" -> "umin" [] opc = "G_UMAX" -> "umax"

\* val gives register r the value its instruction computes from its operands
\* (any value where the instruction leaves it open: a copy of a physical or
\* untyped register, an oversized shift, an instruction of the target's within
\* what the target says of it)
Computes(r, val) ==
  LET MI == getVRegDef(r)
      w == getSizeInBits(getType(r))
      opc == MI.Opcode
      src == MI.Ops[1]
      sw == getSizeInBits(getType(src))
  IN  CASE opc = "G_CONSTANT" -> val[r] = MI.Imm
        [] opc = "G_INTRINSIC" -> Matches(val[r], MI.TargetKnown)
        [] opc = "COPY" ->
             (isVirtual(src) /\ getType(src).Valid /\ getType(r).Valid) => val[r] = val[src]
        [] opc \in {"PHI", "G_PHI"} -> \E i \in 1 .. Len(MI.Ops) : val[r] = val[MI.Ops[i]]
        [] opc \in BinaryOpcodes ->
             Defined(GenericOp(opc), val[MI.Ops[1]], val[MI.Ops[2]], w)
               => val[r] = Concrete(GenericOp(opc), val[MI.Ops[1]], val[MI.Ops[2]], w)
        [] opc = "G_SELECT" -> val[r] \in {val[MI.Ops[2]], val[MI.Ops[3]]}
        [] opc = "G_SEXT" -> val[r] = APsext(val[src], sw, w)
        [] opc = "G_ZEXT" -> val[r] = val[src]
        [] opc = "G_ANYEXT" -> val[r] % 2^sw = val[src]
        [] opc = "G_TRUNC" -> val[r] = val[src] % 2^w
        [] opc = "G_MERGE_VALUES" -> val[r] = val[MI.Ops[1]] + 2^sw * val[MI.Ops[2]]
        [] opc = "G_UNMERGE_VALUES" ->
             ~getType(src).Vector =>
               \E i \in 1 .. Len(MI.Defs) :
                 MI.Defs[i] = r /\ val[r] = (val[src] \div 2^(w * (i - 1))) % 2^w
        [] opc = "G_ZEXTLOAD" -> val[r] < 2^MI.Imm
        [] opc = "G_SEXTLOAD" -> val[r] = APsext(val[r] % 2^MI.Imm, MI.Imm, w)
        [] opc = "G_SEXT_INREG" -> val[r] = APsext(val[src] % 2^MI.Imm, MI.Imm, w)

\* the assignments of values to the registers that every instruction agrees with
Executions ==
  {val \in {MachineFunction(v0, v1, v2) :
              v0 \in ValuesOf(0), v1 \in ValuesOf(1), v2 \in ValuesOf(2)} :
     \A r \in Regs : Computes(r, val)}

\* the answer v of the entry point is true of the value x of the register
SoundAnswer(x, w, v) ==
  CASE query.Entry \in KnownBitsEntries -> Matches(x, v)
    [] query.Entry = "getKnownZeroes" -> BitAnd(x, v) = 0
    [] query.Entry = "getKnownOnes" -> BitAnd(BitNot(x, w), v) = 0
    [] query.Entry = "signBitIsZero" -> v => Bit(x, w - 1) = 0
    [] OTHER -> TRUE

Answered == Idle /\ query # NoQuery

\* C1: whenever a known-bits query (getKnownBits in its three forms,
\* getKnownZeroes, getKnownOnes, signBitIsZero) has answered for a register of
\* scalar type, the answer is true of the register's value in every execution
\* of the machine function: no bit of the value is set where Zero is set, none
\* is clear where One is set.  This is for every MaxDepth of the run and with
\* the target's answers for its own instructions taken as true.
C1_Sound ==
  (Answered /\ getType(query.R).Valid /\ ~getType(query.R).Vector) =>
    \A val \in Executions :
      SoundAnswer(val[query.R], getSizeInBits(getType(query.R)), result.Value)

\* a query on the result of an operation has answered some bit, and the
\* machine function has executions
C1_Witness ==
  /\ Answered
  /\ query.Entry = "getKnownBits(R)"
  /\ getVRegDef(query.R).Opcode \in BinaryOpcodes
  /\ getVRegDef(0).Opcode = "G_INTRINSIC"
  /\ ~isUnknown(result.Value)
  /\ ~isConstant(result.Value)
  /\ Executions # {}

\* steps a known-bits query on a graph of copies, phis and leaves can take:
\* the cache lets every register through to its switch case once, where it
\* takes a step to begin with and one per operand and one to finish; every
\* other activation is one of the at most one per operand and takes one step;
\* getKnownBits adds the assertion and the clearing of the cache
RECURSIVE MaxNumOperands(_)
MaxNumOperands(rs) ==
  IF rs = {} THEN 0
  ELSE LET r == CHOOSE x \in rs : TRUE
       IN  Max(Len(getVRegDef(r).Ops), MaxNumOperands(rs \ {r}))

StepBound == 3 + Cardinality(Regs) * (2 * MaxNumOperands(Regs) + 2)

\* C2: a known-bits query on a graph of copies and phis, with cycles of any
\* kind and length among them, is over within StepBound steps, whatever
\* MaxDepth is, and until it is over it always has a next step to take.
C2_Terminates ==
  /\ steps <= StepBound
  /\ Running => ENABLED NextCopyPhi

\* a query on a cycle of two copies has answered, and of three
C2_Witness ==
  /\ Answered
  /\ query.R = 0
  /\ MaxDepth = MaxDepthBound
  /\ getVRegDef(0).Opcode = "COPY"
  /\ getVRegDef(0).Ops = <<1>>
  /\ getVRegDef(1).Opcode = "COPY"
  /\ getVRegDef(1).Ops \in {<<0>>, <<2>>}
  /\ getVRegDef(2).Opcode \in {"COPY", "G_PHI"}

\* C3: the cache is empty whenever no query is in progress, that is when one
\* starts and after one has answered; it is empty whenever getKnownBits is
\* entered, also from computeNumSignBits, which never sees anything in it; the
\* assertion of getKnownBits never fails.
C3_CacheEmpty ==
  /\ failed # "Cache should have been cleared"
  /\ stack = <<>> => DOMAIN ComputeKnownBitsCache = {}
  /\ (In("getKnownBits") /\ Top.pc = "entry") => DOMAIN ComputeKnownBitsCache = {}
  /\ In("computeNumSignBits") => DOMAIN ComputeKnownBitsCache = {}

\* computeNumSignBits of a G_TRUNC enters getKnownBits after the
\* computeNumSignBits of its source has been through getKnownBits and back
C3_Witness ==
  /\ Len(stack) = 2
  /\ In("getKnownBits")
  /\ Top.pc = "entry"
  /\ stack[2].fn = "computeNumSignBits"
  /\ getVRegDef(stack[2].R).Opcode = "G_TRUNC"
  /\ stack[2].nums # <<>>
  /\ getVRegDef(getVRegDef(stack[2].R).Ops[1]).Opcode \notin NumSignBitsOpcodes
  /\ DOMAIN ComputeKnownBitsCache = {}

\* C4: the assertion after the switch never fails, and no entry of the cache
\* has a bit known to be both zero and one.
C4_NoConflict ==
  /\ failed # "Bits known to be one AND zero?"
  /\ \A r \in DOMAIN ComputeKnownBitsCache : ~hasConflict(ComputeKnownBitsCache[r])

\* the value the innermost activation has just been handed by its callee
Returned(st) == Head(st).vals[Len(Head(st).vals)]

\* computeKnownBitsImpl is entered on a register of scalar type at a Depth of
\* MaxDepth or more
EnteredAtMaxDepth ==
  /\ In("computeKnownBitsImpl")
  /\ Top.pc = "entry"
  /\ TopTy.Valid /\ ~TopTy.Vector
  /\ Top.Depth >= MaxDepth

\* C11: whenever computeKnownBitsImpl is entered on a register of scalar type
\* with Depth >= MaxDepth, what it returns to its caller is fully unknown, also
\* when the register has an entry in the cache.
C11_DepthCutoff ==
  [][(EnteredAtMaxDepth /\ failed' = "none") => isUnknown(Returned(stack'))]_vars

\* a known-bits entry point has answered that it knows no bit
NothingKnown ==
  CASE query.Entry \in KnownBitsEntries -> isUnknown(result.Value)
    [] query.Entry \in {"getKnownZeroes", "getKnownOnes"} -> result.Value = 0
    [] query.Entry = "signBitIsZero" -> ~result.Value

\* C12: where %0 and %1 are each a phi of the other and of the constant 42,
\* in either operand order, a known-bits query on %0 or on %1 with
\* MaxDepth >= 2 answers fully unknown: Zero = 0 and One = 0.
C12_PhiCycleUnknown ==
  (Answered /\ MRI \in PhiCycleFunctions /\ MaxDepth >= 2 /\ query.R \in {0, 1})
    => NothingKnown

\* the query has answered where the constant is the first operand of the phi
\* asked about, and is known when the other phi is reached
C12_Witness ==
  /\ Answered
  /\ MRI \in PhiCycleFunctions
  /\ MaxDepth >= 2
  /\ query.Entry = "getKnownBits(R)"
  /\ query.R = 0
  /\ getVRegDef(0).Ops = <<2, 1>>
  /\ isUnknown(result.Value)

\* C13: computeNumSignBits never returns less than 1, to the caller of the
\* entry point or to itself, whatever the register, DemandedElts, Depth and
\* the answer of the target (0 included); FirstAnswer is never less either.
C13_AtLeastOne ==
  /\ (Answered /\ query.Entry \in NumSignBitsEntries) => result.Value >= 1
  /\ \A i \in 1 .. Len(stack) :
       stack[i].fn = "computeNumSignBits" =>
         \A j \in 1 .. Len(stack[i].nums) : stack[i].nums[j] >= 1

\* an extending load of all bits but one has answered 1, and so has an
\* instruction of the target's that nothing is known about
C13_Witness ==
  /\ Answered
  /\ query.Entry \in NumSignBitsEntries
  /\ query.DemandedElts
  /\ query.Depth < MaxDepth
  /\ getVRegDef(query.R).Opcode = "G_ZEXTLOAD"
  /\ getVRegDef(query.R).Imm = getSizeInBits(getType(query.R)) - 1
  /\ result.Value = 1

\* computeNumSignBits(R, DemandedElts, 0) of a G_SEXT is the one activation,
\* some element is demanded and MaxDepth >= 1
SExtQuery ==
  /\ Len(stack) = 1
  /\ In("computeNumSignBits")
  /\ getVRegDef(Top.R).Opcode = "G_SEXT"
  /\ Top.Depth = 0
  /\ Top.DemandedElts
  /\ MaxDepth >= 1

SExtBits(R) ==
  getScalarSizeInBits(getType(R))
    - getScalarSizeInBits(getType(getOperandReg(getVRegDef(R), 1)))

\* C14: computeNumSignBits at Depth 0 of a register defined by a G_SEXT from
\* s to w bits, with MaxDepth >= 1 and some element demanded, asks
\* computeNumSignBits of the source at Depth 1 and returns what that returns
\* plus w - s, which is at least w - s + 1.
C14_SExtSignBits ==
  [][/\ (SExtQuery /\ Top.pc = "entry") =>
          /\ Len(stack') = 2
          /\ Head(stack') = Frame("computeNumSignBits",
                                  getOperandReg(getVRegDef(Top.R), 1), TRUE, 1)
     /\ (SExtQuery /\ Top.pc = "body") =>
          /\ stack' = <<>>
          /\ result'.Value = Top.nums[1] + SExtBits(Top.R)
          /\ result'.Value >= SExtBits(Top.R) + 1]_vars

\* the answer for the sign extension of an instruction of the target's that
\* nothing is known about
C14_Witness ==
  /\ Answered
  /\ query.Entry \in NumSignBitsEntries
  /\ query.DemandedElts /\ query.Depth = 0
  /\ MaxDepth >= 1
  /\ getVRegDef(query.R).Opcode = "G_SEXT"
  /\ getVRegDef(0) = GIntrinsic(0, Unknown(RegBits))
  /\ result.Value = SExtBits(query.R) + 1

\* the sign-bit count the innermost activation of st has just been handed, or
\* the entry point has answered
ReturnedBits(st, res) ==
  IF st = <<>> THEN res.Value ELSE Head(st).nums[Len(Head(st).nums)]

\* C15: computeNumSignBits entered with Depth >= MaxDepth on a register that
\* no G_CONSTANT defines returns 1 at once, with no call on an operand.
C15_DepthExhausted ==
  [][(/\ In("computeNumSignBits")
      /\ Top.pc = "entry"
      /\ TopMI.Opcode # "G_CONSTANT"
      /\ Top.Depth >= MaxDepth) =>
       /\ Len(stack') = Len(stack) - 1
       /\ ReturnedBits(stack', result') = 1]_vars

\* C16: no assertion of computeForAddCarry fails, whether it is called with a
\* Carry known zero, known one or unknown, by add (carry known zero) or by
\* subtract (RHS complemented, carry known one): on every position of Known
\* the sum of the maxima and the sum of the minima agree.
C16_AddCarryAssertion ==
  /\ failed = "none"
  /\ Op # "none" =>
       \A CarryZero, CarryOne \in BOOLEAN :
         \A R \in {RHS, KB(RHS.BitWidth, RHS.One, RHS.Zero)} :
           ~(CarryZero /\ CarryOne) =>
             LET Known == AddCarryKnown(LHS, R, CarryZero, CarryOne)
             IN  BitAnd(PossibleSumZero(LHS, R, CarryZero), Known)
                   = BitAnd(PossibleSumOne(LHS, R, CarryOne), Known)

\* the public entry point has returned for an unknown Carry and operands that
\* are not constants, and some position of the sum is known
C16_Witness ==
  /\ Op = "addcarry"
  /\ failed = "none"
  /\ Carry = KB(1, 0, 0)
  /\ ~isConstant(LHS)
  /\ ~isConstant(RHS)
  /\ AddCarryKnown(LHS, RHS, FALSE, FALSE) # 0
  /\ KnownOut = computeForAddCarry(LHS, RHS, FALSE, FALSE)

\* what is known of r where r is a G_CONSTANT, or a COPY of a register of r's
\* own scalar type that is; NoOperand where it is neither
RECURSIVE ConstantBehindCopies(_, _)
ConstantBehindCopies(r, fuel) ==
  LET MI == getVRegDef(r)
      Ty == getType(r)
  IN  IF ~Ty.Valid \/ Ty.Vector THEN NoOperand
      ELSE IF MI.Opcode = "G_CONSTANT"
      THEN KB(getSizeInBits(Ty), BitNot(MI.Imm, getSizeInBits(Ty)), MI.Imm)
      ELSE IF /\ MI.Opcode = "COPY"
              /\ fuel > 0
              /\ isVirtual(MI.Ops[1])
              /\ getType(MI.Ops[1]) = Ty
      THEN ConstantBehindCopies(MI.Ops[1], fuel - 1)
      ELSE NoOperand

\* the number of copies between r and the register that is not a COPY
RECURSIVE CopiesBefore(_, _)
CopiesBefore(r, fuel) ==
  LET MI == getVRegDef(r)
  IN  IF MI.Opcode = "COPY" /\ fuel > 0 /\ isVirtual(MI.Ops[1])
      THEN 1 + CopiesBefore(MI.Ops[1], fuel - 1)
      ELSE 0

\* C17: a COPY has its source computed at its own Depth, every other
\* instruction has its operands computed at Depth + 1; so with MaxDepth >= 1
\* getKnownBits of a register that is a G_CONSTANT behind any number of
\* copies, MaxDepth or more included, answers the constant with every bit
\* known.
C17_CopiesKeepDepth ==
  [][((/\ In("computeKnownBitsImpl")
       /\ Len(stack') = Len(stack) + 1
       /\ Head(stack').fn = "computeKnownBitsImpl")
        => Head(stack').Depth
             = Top.Depth + (IF TopMI.Opcode = "COPY" THEN 0 ELSE 1))
     /\
     ((/\ Running
       /\ stack' = <<>>
       /\ failed' = "none"
       /\ query.Entry \in KnownBitsEntries
       /\ query.DemandedElts
       /\ MaxDepth >= 1
       /\ ConstantBehindCopies(query.R, Cardinality(Regs)) # NoOperand)
        => result'.Value = ConstantBehindCopies(query.R, Cardinality(Regs)))]_vars

\* getKnownBits has answered the constant for a register that is MaxDepth or
\* more copies away from it
C17_Witness ==
  /\ Answered
  /\ query.Entry = "getKnownBits(R)"
  /\ MaxDepth >= 1
  /\ CopiesBefore(query.R, Cardinality(Regs)) >= MaxDepth
  /\ ConstantBehindCopies(query.R, Cardinality(Regs)) # NoOperand
  /\ isConstant(result.Value)
  /\ result.Value = ConstantBehindCopies(query.R, Cardinality(Regs))

\* C18: getKnownBits(R, DemandedElts, Depth) computes from the Depth it is
\* given: called with Depth >= MaxDepth on a register of scalar type it
\* answers fully unknown, as computeKnownBitsImpl entered at that Depth does.
C18_GivenDepth ==
  (/\ Answered
   /\ query.Entry = "getKnownBits(R, DemandedElts, Depth)"
   /\ getType(query.R).Valid /\ ~getType(query.R).Vector
   /\ query.Depth >= MaxDepth)
    => isUnknown(result.Value)

\* the case of a shift has the known bits of `done` of its operands: the
\* amount first, the value shifted second
ShiftHas(done) ==
  /\ In("computeKnownBitsImpl")
  /\ Top.pc = "body"
  /\ TopMI.Opcode \in ShiftOpcodes
  /\ Len(Top.vals) = done

\* the amount is not known to be a constant below the width of the value
NoShiftAmount(f) ==
  \/ ~isConstant(f.vals[1])
  \/ getConstant(f.vals[1])
       >= getScalarSizeInBits(getType(getOperandReg(getVRegDef(f.R), 1)))

\* Out is what is known of Src shifted by s, bit by bit
ShiftedKnown(opc, s, Src, Out) ==
  LET w == Src.BitWidth
  IN  /\ Out.BitWidth = w
      /\ \A i \in 0 .. w - 1 :
           CASE opc = "G_SHL" ->
                  IF i < s
                  THEN Bit(Out.Zero, i) = 1 /\ Bit(Out.One, i) = 0
                  ELSE /\ Bit(Out.Zero, i) = Bit(Src.Zero, i - s)
                       /\ Bit(Out.One, i) = Bit(Src.One, i - s)
             [] opc = "G_LSHR" ->
                  IF i >= w - s
                  THEN Bit(Out.Zero, i) = 1 /\ Bit(Out.One, i) = 0
                  ELSE /\ Bit(Out.Zero, i) = Bit(Src.Zero, i + s)
                       /\ Bit(Out.One, i) = Bit(Src.One, i + s)
             [] opc = "G_ASHR" ->
                  /\ Bit(Out.Zero, i) = Bit(Src.Zero, Min(i + s, w - 1))
                  /\ Bit(Out.One, i) = Bit(Src.One, Min(i + s, w - 1))

\* C19: once the amount of a G_SHL, G_LSHR or G_ASHR is computed, if it is not
\* a constant or is a constant >= the width of the value shifted, the case
\* returns fully unknown, with no call on the value shifted; otherwise, with s
\* the amount, G_SHL knows the low s bits zero and of bit i + s what it knows
\* of bit i of the value, G_LSHR knows the high s bits zero and of bit i what
\* it knows of bit i + s, G_ASHR shifts Zero and One arithmetically.
C19_Shift ==
  [][((ShiftHas(1) /\ NoShiftAmount(Top))
        => /\ Len(stack') = Len(stack) - 1
           /\ isUnknown(Returned(stack')))
     /\
     ((ShiftHas(1) /\ ~NoShiftAmount(Top))
        => /\ Len(stack') = Len(stack) + 1
           /\ Head(stack').R = getOperandReg(TopMI, 1))
     /\
     (ShiftHas(2)
        => /\ Len(stack') = Len(stack) - 1
           /\ ShiftedKnown(TopMI.Opcode, getConstant(Top.vals[1]), Top.vals[2],
                           Returned(stack')))]_vars

\* getKnownBits has answered for a G_SHL by the constant 1 of a value of which
\* the target knows bit 0 only: bit 0 is known zero, bit 1 is known one
C19_Witness ==
  /\ Answered
  /\ query.Entry = "getKnownBits(R)"
  /\ getVRegDef(query.R).Opcode = "G_SHL"
  /\ getVRegDef(getOperandReg(getVRegDef(query.R), 2)).Opcode = "G_CONSTANT"
  /\ getVRegDef(getOperandReg(getVRegDef(query.R), 2)).Imm = 1
  /\ getVRegDef(getOperandReg(getVRegDef(query.R), 1)).TargetKnown = KB(RegBits, 0, 1)
  /\ result.Value = KB(RegBits, 1, 2)
  /\ ShiftedKnown("G_SHL", 1, KB(RegBits, 0, 1), result.Value)

====
